---- MODULE Spec2Model ----
(***************************************************************************)
(* Bit-vector storage of sucds/jerky: BitVectorBuilder, BitVectorData,     *)
(* the NoIndex linear-scan index, and the Rank9Sel / DArray indexes.       *)
(*                                                                         *)
(* Representation.                                                         *)
(*  - A machine word (usize, WORD_LEN = 64 bits) is the set of the indices *)
(*    of its set bits, a subset of 0..63.  Shifts, masks, complement and   *)
(*    popcount are the corresponding set operations, so no bit of a word   *)
(*    is lost to the 32-bit integers of TLC.                               *)
(*  - A usize used as a position or a count is an integer.  A value x with *)
(*    x >= 2^64 - 2^31 is held as x - 2^64 (a negative integer), so        *)
(*    usize::MAX is -1.  Addition of such values is then wrapping addition *)
(*    and ULt/ULe are the unsigned comparisons.                            *)
(*  - Option<T> is [tag |-> "Some", val |-> v] or [tag |-> "None"]; a      *)
(*    panic (index out of bounds, unwrap of None, checked overflow) is     *)
(*    [tag |-> "Panic"].                                                   *)
(***************************************************************************)
EXTENDS Integers, Sequences, FiniteSets, TLC

VARIABLES bld, data, origin, last, nops, da, cvb, cv, dacs, it, r9s

vars == <<bld, data, origin, last, nops, da, cvb, cv, dacs, it, r9s>>

\* ------------------------------------------------------------------ bounds

\* Number of builder mutations in one run.
MaxOps == 2

\* Largest number of whole words in a byte buffer given to from_bytes.
MaxBufWords == 2

\* ------------------------------------------------------------- option type

Some(v) == [tag |-> "Some", val |-> v]

None == [tag |-> "None"]

Panic == [tag |-> "Panic"]

IsSome(r) == r.tag = "Some"

\* ------------------------------------------------------------------- usize

\* a < b on usize (negative integers stand for values just below 2^64).
ULt(a, b) == IF (a >= 0) = (b >= 0) THEN a < b ELSE a >= 0

ULe(a, b) == a = b \/ ULt(a, b)

\* a + b overflows usize (b is a small non-negative value).
AddOverflows(a, b) == a < 0 /\ a + b >= 0

\* ------------------------------------------------------------------- words

WORD_LEN == 64

BitIdx == 0 .. (WORD_LEN - 1)

\* w << s and w >> s for 0 <= s < WORD_LEN.
Shl(w, s) == {i + s : i \in {j \in w : j + s < WORD_LEN}}

Shr(w, s) == {i - s : i \in {j \in w : j >= s}}

\* !w
NotW(w) == BitIdx \ w

\* (1 << n) - 1 for n < WORD_LEN, usize::MAX for n = WORD_LEN.
LowMask(n) == 0 .. (n - 1)

\* bit as usize
BoolWord(bit) == IF bit THEN {0} ELSE {}

\* crate::broadword::popcount
popcount(w) == Cardinality(w)

RECURSIVE NthSetBit(_, _, _)
\* The position of the (k+1)-th set bit of w at or above position i.
NthSetBit(w, k, i) ==
  IF i \in w
  THEN IF k = 0 THEN i ELSE NthSetBit(w, k - 1, i + 1)
  ELSE NthSetBit(w, k, i + 1)

\* crate::broadword::select_in_word: the position of the (k+1)-th set bit,
\* None when the word has no such bit.
select_in_word(w, k) ==
  IF k >= 0 /\ k < Cardinality(w) THEN Some(NthSetBit(w, k, 0)) ELSE None

\* words[i] with Rust's bounds check.
Index(words, i) ==
  IF i >= 0 /\ i < Len(words) THEN Some(words[i + 1]) ELSE Panic

\* The bit at position p of a word sequence that holds it.
BitAt(words, p) == (p % WORD_LEN) \in words[(p \div WORD_LEN) + 1]

\* ceil(n / WORD_LEN)
CeilWords(n) == (n + WORD_LEN - 1) \div WORD_LEN

RECURSIVE SumPopRange(_, _, _)
\* Sum of the popcounts of words[lo..hi] (1-based, inclusive), summed by
\* halves so that the evaluation depth stays logarithmic.
SumPopRange(words, lo, hi) ==
  IF lo > hi THEN 0
  ELSE IF lo = hi THEN popcount(words[lo])
  ELSE SumPopRange(words, lo, (lo + hi) \div 2)
         + SumPopRange(words, ((lo + hi) \div 2) + 1, hi)

\* Sum of the popcounts of the first n words.
SumPop(words, n) == SumPopRange(words, 1, n)

\* -------------------------------------------------------- BitVectorBuilder

EmptyBuilder == [words |-> <<>>, len |-> 0]

Done(b) == [st |-> "ok", b |-> b]

Failed(b) == [st |-> "err", b |-> b]

Panicked(b) == [st |-> "panic", b |-> b]

\* The mutant of push_bit that leaves len as it was.
push_bit_NoLen(b, bit) ==
  LET pos_in_word == b.len % WORD_LEN IN
  IF pos_in_word = 0
  THEN Done([b EXCEPT !.words = Append(@, BoolWord(bit))])
  ELSE Done([b EXCEPT !.words[Len(b.words)] = @ \cup Shl(BoolWord(bit), pos_in_word)])

push_bit(b, bit) ==
  LET pos_in_word == b.len % WORD_LEN IN
  IF pos_in_word = 0
  THEN Done([words |-> Append(b.words, BoolWord(bit)), len |-> b.len + 1])
  ELSE IF Len(b.words) = 0
       THEN Panicked(b)
       ELSE Done([words |-> [b.words EXCEPT ![Len(b.words)] =
                                @ \cup Shl(BoolWord(bit), pos_in_word)],
                  len |-> b.len + 1])

\* push_bits without the mask: the bits of the value above the low len
\* are written too.
push_bits_NoMask(b, bits, len) ==
  IF ULt(WORD_LEN, len) THEN Failed(b)
  ELSE IF len = 0 THEN Done(b)
  ELSE
    LET pos_in_word == b.len % WORD_LEN IN
    IF pos_in_word = 0
    THEN Done([words |-> Append(b.words, bits), len |-> b.len + len])
    ELSE IF Len(b.words) = 0
         THEN Panicked(b)
         ELSE
           LET w1 == [b.words EXCEPT ![Len(b.words)] =
                         @ \cup Shl(bits, pos_in_word)]
               w2 == IF len > WORD_LEN - pos_in_word
                     THEN Append(w1, Shr(bits, WORD_LEN - pos_in_word))
                     ELSE w1
           IN Done([words |-> w2, len |-> b.len + len])

push_bits(b, bits, len) ==
  IF ULt(WORD_LEN, len) THEN Failed(b)
  ELSE IF len = 0 THEN Done(b)
  ELSE
    LET mask == LowMask(len)
        mbits == bits \cap mask
        pos_in_word == b.len % WORD_LEN
    IN
    IF pos_in_word = 0
    THEN Done([words |-> Append(b.words, mbits), len |-> b.len + len])
    ELSE IF Len(b.words) = 0
         THEN Panicked(b)
         ELSE
           LET w1 == [b.words EXCEPT ![Len(b.words)] =
                         @ \cup Shl(mbits, pos_in_word)]
               w2 == IF len > WORD_LEN - pos_in_word
                     THEN Append(w1, Shr(mbits, WORD_LEN - pos_in_word))
                     ELSE w1
           IN Done([words |-> w2, len |-> b.len + len])

\* set_bit without clearing the bit first: it can set a bit, never unset it.
set_bit_NoClear(b, pos, bit) ==
  IF ULe(b.len, pos) THEN Failed(b)
  ELSE
    LET word == pos \div WORD_LEN
        pos_in_word == pos % WORD_LEN
    IN
    IF word >= Len(b.words)
    THEN Panicked(b)
    ELSE Done([b EXCEPT !.words[word + 1] =
                 @ \cup Shl(BoolWord(bit), pos_in_word)])

set_bit(b, pos, bit) ==
  IF ULe(b.len, pos) THEN Failed(b)
  ELSE
    LET word == pos \div WORD_LEN
        pos_in_word == pos % WORD_LEN
    IN
    IF word >= Len(b.words)
    THEN Panicked(b)
    ELSE Done([b EXCEPT !.words[word + 1] =
                 (@ \ Shl({0}, pos_in_word))
                   \cup Shl(BoolWord(bit), pos_in_word)])

RECURSIVE extend_bits(_, _)
extend_bits(b, bits) ==
  IF bits = <<>> THEN Done(b)
  ELSE LET r == push_bit(b, Head(bits)) IN
       IF r.st = "ok" THEN extend_bits(r.b, Tail(bits)) ELSE r

\* The mutant of into_data that leaves the last word behind.
into_data_DropWord(b) ==
  [words |-> SubSeq(b.words, 1, Len(b.words) - 1), len |-> b.len]

into_data(b) == [words |-> b.words, len |-> b.len]

\* ----------------------------------------------------------- BitVectorData

DefaultData == [words |-> <<>>, len |-> 0]

num_words(d) == Len(d.words)

\* overflow_checks: the build panics on arithmetic overflow (debug) or wraps
\* (release).
get_bits(d, pos, len, overflow_checks) ==
  IF ULt(WORD_LEN, len) THEN None
  ELSE IF AddOverflows(pos, len) /\ overflow_checks THEN Panic
  ELSE IF ULt(d.len, pos + len) THEN None
  ELSE IF len = 0 THEN Some({})
  ELSE
    LET block == pos \div WORD_LEN
        shift == pos % WORD_LEN
        mask == LowMask(len)
        lo == Index(d.words, block)
    IN
    IF shift + len <= WORD_LEN
    THEN IF IsSome(lo) THEN Some(Shr(lo.val, shift) \cap mask) ELSE Panic
    ELSE LET hi == Index(d.words, block + 1) IN
         IF IsSome(lo) /\ IsSome(hi)
         THEN Some(Shr(lo.val, shift)
                     \cup (Shl(hi.val, WORD_LEN - shift) \cap mask))
         ELSE Panic

access(d, pos) ==
  IF ULt(pos, d.len)
  THEN LET w == Index(d.words, pos \div WORD_LEN) IN
       IF IsSome(w) THEN Some((pos % WORD_LEN) \in w.val) ELSE Panic
  ELSE None

\* A Bytes buffer is [aligned, nbytes, words]: whether its address is
\* aligned to usize, its length in bytes, and its whole words.
\* bytes.view::<[usize]>() succeeds when the buffer is aligned and its length
\* is a multiple of the word size; from_bytes then keeps len as given.
from_bytes(len, bytes) ==
  IF bytes.aligned /\ bytes.nbytes % (WORD_LEN \div 8) = 0
  THEN [st |-> "ok", d |-> [words |-> bytes.words, len |-> len]]
  ELSE [st |-> "err", d |-> DefaultData]

\* Bytes::from_source(words) of a Vec<usize>: the vector's own buffer, which
\* is aligned to usize and holds whole words.
from_source(words) ==
  [aligned |-> TRUE, nbytes |-> (WORD_LEN \div 8) * Len(words), words |-> words]

\* The mutant of into_bytes that leaves the last word out of the buffer.
into_bytes_DropWord(b) ==
  [len |-> b.len,
   bytes |-> from_source(SubSeq(b.words, 1, Len(b.words) - 1))]

\* BitVectorBuilder::into_bytes()
into_bytes(b) == [len |-> b.len, bytes |-> from_source(b.words)]

\* BitVectorData::to_bytes(): the buffer under the view of the words.
to_bytes(d) == [len |-> d.len, bytes |-> from_source(d.words)]

\* ------------------------------------------------------------------ NoIndex

NoIndex_num_ones(d) == SumPop(d.words, Len(d.words))

\* BitVectorIndex::num_zeros (default method): data.len() - num_ones.
NoIndex_num_zeros(d, overflow_checks) ==
  IF NoIndex_num_ones(d) > d.len
  THEN IF overflow_checks THEN Panic ELSE Some(d.len - NoIndex_num_ones(d))
  ELSE Some(d.len - NoIndex_num_ones(d))

\* rank1 reading the tail word also when left = 0.
NoIndex_rank1_NoLeftGuard(d, pos) ==
  IF ULt(d.len, pos) THEN None
  ELSE
    LET wpos == pos \div WORD_LEN
        left == pos % WORD_LEN
        w == Index(d.words, wpos)
    IN
    IF wpos > Len(d.words) \/ ~IsSome(w) THEN Panic
    ELSE Some(SumPop(d.words, wpos)
                + popcount(w.val \cap LowMask(left)))

NoIndex_rank1(d, pos) ==
  IF ULt(d.len, pos) THEN None
  ELSE
    LET wpos == pos \div WORD_LEN
        left == pos % WORD_LEN
    IN
    IF wpos > Len(d.words) THEN Panic
    ELSE IF left # 0
    THEN LET w == Index(d.words, wpos) IN
         IF IsSome(w)
         THEN Some(SumPop(d.words, wpos)
                     + popcount(Shl(w.val, WORD_LEN - left)))
         ELSE Panic
    ELSE Some(SumPop(d.words, wpos))

\* BitVectorIndex::rank0 (default method): Some(pos - rank1(pos)?).
NoIndex_rank0(d, pos) ==
  LET r == NoIndex_rank1(d, pos) IN
  IF IsSome(r) THEN Some(pos - r.val) ELSE r

RECURSIVE ScanWords(_, _, _, _, _)
\* The while loop of select1 (inv = FALSE) and select0 (inv = TRUE): the
\* pair <<wpos, cur_rank>> at which it stops.
ScanWords(words, k, wpos, cur_rank, inv) ==
  IF wpos < Len(words)
  THEN LET w == IF inv THEN NotW(words[wpos + 1]) ELSE words[wpos + 1]
           cnt == popcount(w)
       IN IF ULt(k, cur_rank + cnt)
          THEN <<wpos, cur_rank>>
          ELSE ScanWords(words, k, wpos + 1, cur_rank + cnt, inv)
  ELSE <<wpos, cur_rank>>

\* select1 returning the in-word offset without the word's base position.
NoIndex_select1_NoBase(d, k) ==
  LET s == ScanWords(d.words, k, 0, 0, FALSE)
      wpos == s[1]
      cur_rank == s[2]
  IN
  IF wpos = Len(d.words) THEN None
  ELSE LET r == select_in_word(d.words[wpos + 1], k - cur_rank) IN
       IF IsSome(r) THEN Some(r.val) ELSE Panic

NoIndex_select1(d, k) ==
  LET s == ScanWords(d.words, k, 0, 0, FALSE)
      wpos == s[1]
      cur_rank == s[2]
  IN
  IF wpos = Len(d.words) THEN None
  ELSE LET r == select_in_word(d.words[wpos + 1], k - cur_rank) IN
       IF IsSome(r) THEN Some(wpos * WORD_LEN + r.val) ELSE Panic

\* select0 without the final comparison against len.
NoIndex_select0_NoLenCheck(d, k) ==
  LET s == ScanWords(d.words, k, 0, 0, TRUE)
      wpos == s[1]
      cur_rank == s[2]
  IN
  IF wpos = Len(d.words) THEN None
  ELSE LET r == select_in_word(NotW(d.words[wpos + 1]), k - cur_rank) IN
       IF IsSome(r) THEN Some(wpos * WORD_LEN + r.val) ELSE Panic

NoIndex_select0(d, k) ==
  LET s == ScanWords(d.words, k, 0, 0, TRUE)
      wpos == s[1]
      cur_rank == s[2]
  IN
  IF wpos = Len(d.words) THEN None
  ELSE LET r == select_in_word(NotW(d.words[wpos + 1]), k - cur_rank) IN
       IF IsSome(r)
       THEN LET sel == wpos * WORD_LEN + r.val IN
            IF sel < d.len THEN Some(sel) ELSE None
       ELSE Panic

\* ------------------------------------------------------------ Rank9SelIndex

\* Bits per super-block and 64-bit sub-blocks per super-block.
R9_BLOCK_LEN == 512

R9_SUBS == 8

\* B = ceil(u / 512)
R9_num_blocks(d) == (d.len + R9_BLOCK_LEN - 1) \div R9_BLOCK_LEN

RECURSIVE R9_prefix(_, _, _)
\* The running popcounts of words[lo..hi] (1-based, inclusive): entry i is
\* the number of ones in words lo .. lo+i-1.  Built by halves so that the
\* evaluation depth stays logarithmic.
R9_prefix(words, lo, hi) ==
  IF lo > hi THEN <<>>
  ELSE IF lo = hi THEN <<popcount(words[lo])>>
  ELSE LET l == R9_prefix(words, lo, (lo + hi) \div 2)
           r == R9_prefix(words, ((lo + hi) \div 2) + 1, hi)
       IN l \o [i \in 1 .. Len(r) |-> r[i] + l[Len(l)]]

\* The words the build pass reads: words[0..ceil(u/W)].
R9_num_words(d) ==
  IF CeilWords(d.len) < Len(d.words) THEN CeilWords(d.len) ELSE Len(d.words)

\* Ones in the first n words read by the pass, cum being their running
\* popcounts; words past the end count as empty.
R9_ones_in(cum, n) ==
  IF n = 0 \/ Len(cum) = 0 THEN 0
  ELSE IF n < Len(cum) THEN cum[n] ELSE cum[Len(cum)]

\* The index over the words with running popcounts cum and B super-blocks.
\* abs[b] is pairs[2b]: the ones before super-block b, with abs[B] =
\* num_ones.  rel[b][i] is the i-th 9-bit field of pairs[2b+1]: for i < 7
\* the ones of sub-blocks 0..i of super-block b; the 8th field is unused.
R9_index(cum, B) ==
  [abs |-> [b \in 0 .. B |-> R9_ones_in(cum, R9_SUBS * b)],
   rel |-> [b \in 0 .. B |->
             [i \in 0 .. (R9_SUBS - 1) |->
               IF i = R9_SUBS - 1 \/ b = B THEN 0
               ELSE (R9_ones_in(cum, R9_SUBS * b + i + 1)
                       - R9_ones_in(cum, R9_SUBS * b)) % R9_BLOCK_LEN]],
   num_ones |-> R9_ones_in(cum, Len(cum))]

\* Rank9SelIndex::build(&data)
Rank9_build(d) ==
  R9_index(R9_prefix(d.words, 1, R9_num_words(d)), R9_num_blocks(d))

Rank9_num_ones(idx) == idx.num_ones

R9_sub_block_rank(idx, b, s) == IF s = 0 THEN 0 ELSE idx.rel[b][s - 1]

\* pairs[2b] + sub_block_rank(b, s) + popcount(words[pos >> 6] & ((1 << off) - 1))
Rank9_rank1(idx, d, pos) ==
  IF ULt(d.len, pos) THEN None
  ELSE
    LET b == pos \div R9_BLOCK_LEN
        s == (pos \div WORD_LEN) % R9_SUBS
        off == pos % WORD_LEN
        w == Index(d.words, pos \div WORD_LEN)
    IN
    IF IsSome(w)
    THEN Some(idx.abs[b] + R9_sub_block_rank(idx, b, s)
                + popcount(w.val \cap LowMask(off)))
    ELSE Panic

\* rank0(pos) = pos - rank1(pos)
Rank9_rank0(idx, d, pos) ==
  LET r == Rank9_rank1(idx, d, pos) IN
  IF IsSome(r) THEN Some(pos - r.val) ELSE r

\* Cumulative count of the target polarity before super-block b.
R9_block_count(idx, b, ones) ==
  IF ones THEN idx.abs[b] ELSE R9_BLOCK_LEN * b - idx.abs[b]

\* Cumulative count of the target polarity in sub-blocks 0..i of block b.
R9_sub_count(idx, b, i, ones) ==
  IF ones THEN idx.rel[b][i] ELSE WORD_LEN * (i + 1) - idx.rel[b][i]

RECURSIVE R9_search(_, _, _, _, _)
\* Binary search of [lo, hi) for the last super-block whose cumulative
\* count is <= k.
R9_search(idx, k, lo, hi, ones) ==
  IF hi - lo <= 1 THEN lo
  ELSE IF R9_block_count(idx, (lo + hi) \div 2, ones) <= k
       THEN R9_search(idx, k, (lo + hi) \div 2, hi, ones)
       ELSE R9_search(idx, k, lo, (lo + hi) \div 2, ones)

\* Select without hints for one polarity, num being the number of targets.
R9_select(idx, d, k, ones, num) ==
  IF ULe(num, k) THEN None
  ELSE
    LET b == R9_search(idx, k, 0, R9_num_blocks(d), ones)
        r == k - R9_block_count(idx, b, ones)
        s == Cardinality({i \in 0 .. (R9_SUBS - 2) :
                            R9_sub_count(idx, b, i, ones) <= r})
        before == IF s = 0 THEN 0 ELSE R9_sub_count(idx, b, s - 1, ones)
        w == Index(d.words, R9_SUBS * b + s)
    IN
    IF IsSome(w)
    THEN LET p == select_in_word(IF ones THEN w.val ELSE NotW(w.val),
                                 r - before)
         IN IF IsSome(p)
            THEN Some((R9_SUBS * b + s) * WORD_LEN + p.val)
            ELSE Panic
    ELSE Panic

Rank9_select1(idx, d, k) == R9_select(idx, d, k, TRUE, idx.num_ones)

Rank9_select0(idx, d, k) == R9_select(idx, d, k, FALSE, d.len - idx.num_ones)

\* Targets per select hint: the stride 2^13.
R9_HINT_STRIDE == 8192

\* The mutant of the hints whose first threshold is one stride, not 0.
R9_hints_LateThreshold(idx, B, ones) ==
  LET total == R9_block_count(idx, B, ones)
      n == IF total = 0 THEN 0 ELSE (total - 1) \div R9_HINT_STRIDE
  IN [c \in 1 .. (n + 1) |->
       IF c = n + 1 THEN B
       ELSE CHOOSE b \in 0 .. (B - 1) :
              /\ R9_block_count(idx, b, ones) <= c * R9_HINT_STRIDE
              /\ c * R9_HINT_STRIDE < R9_block_count(idx, b + 1, ones)]

\* The select hints of one polarity over B super-blocks: for each multiple
\* of the stride that the cumulative count crosses, from 0 on, the
\* super-block in which it is crossed; then B as padding.
R9_hints(idx, B, ones) ==
  LET total == R9_block_count(idx, B, ones)
      n == (total + R9_HINT_STRIDE - 1) \div R9_HINT_STRIDE
  IN [c \in 1 .. (n + 1) |->
       IF c = n + 1 THEN B
       ELSE CHOOSE b \in 0 .. (B - 1) :
              /\ R9_block_count(idx, b, ones) <= (c - 1) * R9_HINT_STRIDE
              /\ (c - 1) * R9_HINT_STRIDE < R9_block_count(idx, b + 1, ones)]

\* The index with its optional hints, as the builder's options leave it.
Rank9_build_hinted(d, with_select1, with_select0) ==
  LET idx == Rank9_build(d) IN
  [idx |-> idx,
   select1_hints |-> IF with_select1
                     THEN Some(R9_hints(idx, R9_num_blocks(d), TRUE))
                     ELSE None,
   select0_hints |-> IF with_select0
                     THEN Some(R9_hints(idx, R9_num_blocks(d), FALSE))
                     ELSE None]

\* Select for one polarity with the super-block searched in [lo, hi).
R9_select_in(idx, d, k, ones, lo, hi) ==
  LET b == R9_search(idx, k, lo, hi, ones)
      r == k - R9_block_count(idx, b, ones)
      s == Cardinality({i \in 0 .. (R9_SUBS - 2) :
                          R9_sub_count(idx, b, i, ones) <= r})
      before == IF s = 0 THEN 0 ELSE R9_sub_count(idx, b, s - 1, ones)
      w == Index(d.words, R9_SUBS * b + s)
  IN
  IF b \in DOMAIN idx.abs /\ IsSome(w)
  THEN LET p == select_in_word(IF ones THEN w.val ELSE NotW(w.val),
                               r - before)
       IN IF IsSome(p)
          THEN Some((R9_SUBS * b + s) * WORD_LEN + p.val)
          ELSE Panic
  ELSE Panic

\* Select with optional hints h for one polarity, num being the number of
\* targets: with hints the super-block is searched in
\* [h[k >> 13], h[(k >> 13) + 1] + 1), else in the whole range.
R9_select_hinted(idx, h, d, k, ones, num) ==
  IF ULe(num, k) THEN None
  ELSE IF IsSome(h)
  THEN LET lo == Index(h.val, k \div R9_HINT_STRIDE)
           hi == Index(h.val, (k \div R9_HINT_STRIDE) + 1)
       IN IF IsSome(lo) /\ IsSome(hi)
          THEN R9_select_in(idx, d, k, ones, lo.val, hi.val + 1)
          ELSE Panic
  ELSE R9_select_in(idx, d, k, ones, 0, R9_num_blocks(d))

\* Rank9Sel::build_from_bits(bits, _with_rank, with_select1, with_select0),
\* bv being RawBitVector::from_bits(bits).
Rank9Sel_build_from_bits(bv, with_rank, with_select1, with_select0) ==
  Rank9_build_hinted(bv, with_select1, with_select0)

\* Rank9Sel::select1(k)
Rank9Sel_select1(rs, bv, k) ==
  R9_select_hinted(rs.idx, rs.select1_hints, bv, k, TRUE, rs.idx.num_ones)

\* Rank9Sel::select0(k)
Rank9Sel_select0(rs, bv, k) ==
  R9_select_hinted(rs.idx, rs.select0_hints, bv, k, FALSE,
                   bv.len - rs.idx.num_ones)

\* -------------------------------------------------------------- DArrayIndex

\* L: target bits per super-block.
DA_BLOCK_LEN == 65536

\* L_S: sub-sample period.
DA_SUBBLOCK_LEN == 64

\* 2^16: the number of values of a 16-bit sub-block offset.
DA_U16 == 65536

\* span < T, where T = L^2 = 2^32.
DA_is_short(span) == span \div DA_BLOCK_LEN < DA_BLOCK_LEN

\* The target bits of word i (1-based): w for ones; !w for zeros, with the
\* positions >= u masked off in the last word.
DA_target_word(d, i, ones) ==
  IF ones THEN d.words[i]
  ELSE IF i * WORD_LEN <= d.len THEN NotW(d.words[i])
  ELSE {j \in NotW(d.words[i]) : (i - 1) * WORD_LEN + j < d.len}

\* The set bits of w in increasing order, each moved up by base.
DA_word_positions(w, base) ==
  IF w = BitIdx THEN [i \in 1 .. WORD_LEN |-> base + i - 1]
  ELSE [i \in 1 .. Cardinality(w) |-> base + NthSetBit(w, i - 1, 0)]

RECURSIVE DA_positions(_, _, _, _)
\* The target positions the pass over words lo..hi (1-based) meets, in the
\* order it meets them.  Gathered by halves so that the evaluation depth
\* stays logarithmic.
DA_positions(d, lo, hi, ones) ==
  IF lo > hi THEN <<>>
  ELSE IF lo = hi
  THEN DA_word_positions(DA_target_word(d, lo, ones), (lo - 1) * WORD_LEN)
  ELSE DA_positions(d, lo, (lo + hi) \div 2, ones)
         \o DA_positions(d, ((lo + hi) \div 2) + 1, hi, ones)

\* The index before any bucket is flushed.
DA_empty ==
  [num_positions |-> 0, block_inventory |-> <<>>,
   subblock_inventory |-> <<>>, overflow_positions |-> <<>>]

\* Flush of the bucket cur, a non-empty sequence of target positions.  Short
\* (span < T): push -(first_pos + 1) and, for every L_S-th position of the
\* bucket, its offset from first_pos as a 16-bit value.  Long: push
\* |overflow_positions| and append the bucket's positions.
DA_flush(idx, cur) ==
  IF DA_is_short(cur[Len(cur)] - cur[1] + 1)
  THEN [idx EXCEPT
          !.num_positions = @ + Len(cur),
          !.block_inventory = Append(@, -(cur[1] + 1)),
          !.subblock_inventory =
             @ \o [j \in 1 .. ((Len(cur) + DA_SUBBLOCK_LEN - 1)
                                  \div DA_SUBBLOCK_LEN) |->
                     (cur[(j - 1) * DA_SUBBLOCK_LEN + 1] - cur[1]) % DA_U16]]
  ELSE [idx EXCEPT
          !.num_positions = @ + Len(cur),
          !.block_inventory = Append(@, Len(idx.overflow_positions)),
          !.overflow_positions = @ \o cur]

RECURSIVE DA_flush_from(_, _, _)
\* The flushes of buckets q, q+1, ... of the target positions P: every
\* bucket holds L positions but the last, the partial tail.
DA_flush_from(idx, P, q) ==
  IF q * DA_BLOCK_LEN >= Len(P) THEN idx
  ELSE DA_flush_from(
         DA_flush(idx, SubSeq(P, q * DA_BLOCK_LEN + 1,
                              IF (q + 1) * DA_BLOCK_LEN < Len(P)
                              THEN (q + 1) * DA_BLOCK_LEN ELSE Len(P))),
         P, q + 1)

\* DArrayIndexBuilder::<ones>::from_raw(bv).build()
DA_build(d, ones) ==
  DA_flush_from(DA_empty, DA_positions(d, 1, Len(d.words), ones), 0)

RECURSIVE DA_count(_, _, _, _)
\* Number of target bits in words lo..hi (1-based, inclusive).
DA_count(d, lo, hi, ones) ==
  IF lo > hi THEN 0
  ELSE IF lo = hi THEN popcount(DA_target_word(d, lo, ones))
  ELSE DA_count(d, lo, (lo + hi) \div 2, ones)
         + DA_count(d, ((lo + hi) \div 2) + 1, hi, ones)

RECURSIVE DA_nth_in(_, _, _, _, _)
\* Position of the (k+1)-th target bit among words lo..hi, which hold it.
DA_nth_in(d, k, lo, hi, ones) ==
  IF lo = hi
  THEN (lo - 1) * WORD_LEN + NthSetBit(DA_target_word(d, lo, ones), k, 0)
  ELSE LET mid == (lo + hi) \div 2
           c == DA_count(d, lo, mid, ones)
       IN IF k < c THEN DA_nth_in(d, k, lo, mid, ones)
          ELSE DA_nth_in(d, k - c, mid + 1, hi, ones)

\* The forward scan from position start: the position of the (r+1)-th target
\* bit at or after start, found word by word and finished by select_in_word;
\* it runs off the words when there is none.
DA_scan(d, start, r, ones) ==
  LET w == start \div WORD_LEN
      first == IF w < Len(d.words)
               THEN DA_target_word(d, w + 1, ones) \ LowMask(start % WORD_LEN)
               ELSE {}
      rest == r - popcount(first)
  IN
  IF r < popcount(first) THEN Some(w * WORD_LEN + NthSetBit(first, r, 0))
  ELSE IF rest < DA_count(d, w + 2, Len(d.words), ones)
  THEN Some(DA_nth_in(d, rest, w + 2, Len(d.words), ones))
  ELSE Panic

\* DArrayIndex::<ones>::select(data, k)
DA_select(idx, d, k, ones) ==
  IF ULe(idx.num_positions, k) THEN None
  ELSE
    LET q == k \div DA_BLOCK_LEN
        r == k % DA_BLOCK_LEN
        e == idx.block_inventory[q + 1]
    IN
    IF e >= 0
    THEN IF e + r < Len(idx.overflow_positions)
         THEN Some(idx.overflow_positions[e + r + 1]) ELSE Panic
    ELSE IF r = 0 THEN Some(-e - 1)
    ELSE LET si == q * (DA_BLOCK_LEN \div DA_SUBBLOCK_LEN)
                     + r \div DA_SUBBLOCK_LEN
         IN IF si < Len(idx.subblock_inventory)
            THEN DA_scan(d, (-e - 1) + idx.subblock_inventory[si + 1],
                         r % DA_SUBBLOCK_LEN, ones)
            ELSE Panic

\* ------------------------------------------------------------------ DArray

\* No DArray constructed.  In a constructed one s1 is the one-polarity
\* index, s0 the optional zero-polarity index and r9 the optional Rank9
\* sidecar; the bits are data.
NoDArray == [built |-> FALSE, s1 |-> DA_empty, s0 |-> None, r9 |-> None]

\* BitVectorData::from_bits over the sequence of len bits whose set
\* positions are ones: the words the push_bit loop of extend_bits leaves.
from_bits(len, ones) ==
  [words |-> [i \in 1 .. CeilWords(len) |->
                {p % WORD_LEN : p \in {q \in ones : q \div WORD_LEN = i - 1}}],
   len |-> len]

\* DArray::from_bits, bv being the bits.
DArray_from_bits(bv) ==
  [built |-> TRUE, s1 |-> DA_build(bv, TRUE), s0 |-> None, r9 |-> None]

enable_rank(a, bv) == [a EXCEPT !.r9 = Some(Rank9_build(bv))]

enable_select0(a, bv) == [a EXCEPT !.s0 = Some(DA_build(bv, FALSE))]

DArray_rank1(a, bv, pos) ==
  IF IsSome(a.r9) THEN Rank9_rank1(a.r9.val, bv, pos) ELSE Panic

DArray_rank0(a, bv, pos) ==
  IF IsSome(a.r9) THEN Rank9_rank0(a.r9.val, bv, pos) ELSE Panic

DArray_select1(a, bv, k) == DA_select(a.s1, bv, k, TRUE)

DArray_select0(a, bv, k) ==
  IF IsSome(a.s0) THEN DA_select(a.s0.val, bv, k, FALSE) ELSE Panic

\* ---------------------------------------------------- CompactVectorBuilder

\* a * b overflows usize, b being a small non-negative value and a negative
\* a standing for a + 2^64.
MulOverflows(a, b) == a < 0 /\ b > 1

\* CompactVectorBuilder::default(): the derived Default.
CVB_default == [chunks |-> EmptyBuilder, len |-> 0, width |-> 0]

\* (1..=64).contains(&width)
WidthInRange(width) == 1 <= width /\ width <= 64

\* CompactVectorBuilder::new(width)
CVB_new(width) ==
  IF ~WidthInRange(width) THEN Failed(CVB_default)
  ELSE Done([chunks |-> EmptyBuilder, len |-> 0, width |-> width])

\* CompactVectorBuilder::with_capacity(capa, width)
CVB_with_capacity(capa, width) == CVB_new(width)

\* self.width != 64 && val >> self.width != 0
Unfit(val, width) == width # 64 /\ Shr(val, width) # {}

\* The mutant of push_int that does not count the pushed integer.
CVB_push_int_NoLen(b, val) ==
  IF Unfit(val, b.width) THEN Failed(b)
  ELSE LET r == push_bits(b.chunks, val, b.width) IN
       [st |-> r.st, b |-> [b EXCEPT !.chunks = r.b]]

\* CompactVectorBuilder::push_int(val)
CVB_push_int(b, val) ==
  IF Unfit(val, b.width) THEN Failed(b)
  ELSE LET r == push_bits(b.chunks, val, b.width) IN
       IF r.st = "ok"
       THEN Done([b EXCEPT !.chunks = r.b, !.len = @ + 1])
       ELSE [st |-> r.st, b |-> [b EXCEPT !.chunks = r.b]]

RECURSIVE CVB_set_bits(_, _, _, _)
\* The loop of set_int from bit i on: chunks.set_bit(pos * width + i, bit i
\* of val)? for every i below width.
CVB_set_bits(b, pos, val, i) ==
  IF i >= b.width THEN Done(b)
  ELSE LET r == set_bit(b.chunks, pos * b.width + i, i \in val) IN
       IF r.st = "ok"
       THEN CVB_set_bits([b EXCEPT !.chunks = r.b], pos, val, i + 1)
       ELSE [st |-> r.st, b |-> [b EXCEPT !.chunks = r.b]]

\* The mutant of set_int that writes one bit too few.
CVB_set_int_SkipBit(b, pos, val) ==
  IF ULe(b.len, pos) THEN Failed(b)
  ELSE IF Unfit(val, b.width) THEN Failed(b)
  ELSE CVB_set_bits(b, pos, val, 1)

\* The mutant of set_int that tests the value after writing its low bits.
CVB_set_int_LateFit(b, pos, val) ==
  IF ULe(b.len, pos) THEN Failed(b)
  ELSE LET r == CVB_set_bits(b, pos, val, 0) IN
       IF Unfit(val, b.width) THEN [st |-> "err", b |-> r.b] ELSE r

\* CompactVectorBuilder::set_int(pos, val)
CVB_set_int(b, pos, val) ==
  IF ULe(b.len, pos) THEN Failed(b)
  ELSE IF Unfit(val, b.width) THEN Failed(b)
  ELSE CVB_set_bits(b, pos, val, 0)

RECURSIVE CVB_extend(_, _)
\* CompactVectorBuilder::extend(vals): push_int(x)? for every x of vals.
CVB_extend(b, vals) ==
  IF vals = <<>> THEN Done(b)
  ELSE LET r == CVB_push_int(b, Head(vals)) IN
       IF r.st = "ok" THEN CVB_extend(r.b, Tail(vals)) ELSE r

\* CompactVectorBuilder::freeze()
CVB_freeze(b) ==
  [chunks |-> into_data(b.chunks), len |-> b.len, width |-> b.width]

\* ----------------------------------------------------------- CompactVector

\* CompactVector::default()
CV_default == [chunks |-> DefaultData, len |-> 0, width |-> 0]

\* A constructor's Ok(v) and Err.
CVOk(v) == [st |-> "ok", v |-> v]

CVErr == [st |-> "err", v |-> CV_default]

\* a < b on the usize values of two words.
WordLt(a, b) ==
  \E i \in b : i \notin a /\ \A j \in (i + 1) .. (WORD_LEN - 1) : (j \in a) = (j \in b)

\* utils::needed_bits(x): the bits needed to write x, needed_bits(0) = 1.
needed_bits(x) ==
  IF x = {} THEN 1 ELSE 1 + CHOOSE i \in x : \A j \in x : j <= i

RECURSIVE CV_fill(_, _, _)
\* The loop of from_int: push_int(val)? n times.
CV_fill(b, val, n) ==
  IF n = 0 THEN Done(b)
  ELSE LET r == CVB_push_int(b, val) IN
       IF r.st = "ok" THEN CV_fill(r.b, val, n - 1) ELSE r

\* The mutant of from_int that tests the value only when one is stored.
CV_from_int_LateFit(val, len, width) ==
  IF ~WidthInRange(width) THEN CVErr
  ELSE LET r == CV_fill(CVB_new(width).b, val, len) IN
       IF r.st = "ok" THEN CVOk(CVB_freeze(r.b)) ELSE CVErr

\* CompactVector::from_int(val, len, width)
CV_from_int(val, len, width) ==
  IF ~WidthInRange(width) THEN CVErr
  ELSE IF width < 64 /\ Shr(val, width) # {} THEN CVErr
  ELSE LET nb == CVB_with_capacity(len, width) IN
       IF nb.st # "ok" THEN CVErr
       ELSE LET r == CV_fill(nb.b, val, len) IN
            IF r.st = "ok" THEN CVOk(CVB_freeze(r.b)) ELSE CVErr

RECURSIVE CV_max_int(_, _)
\* The fold max_int = max_int.max(x) over vals, from max_int = m.
CV_max_int(vals, m) ==
  IF vals = <<>> THEN m
  ELSE CV_max_int(Tail(vals), IF WordLt(m, Head(vals)) THEN Head(vals) ELSE m)

\* The mutant of from_slice that sizes the width on the first value.
CV_from_slice_FirstWidth(vals) ==
  IF vals = <<>> THEN CVOk(CV_default)
  ELSE LET r == CVB_extend(CVB_new(needed_bits(Head(vals))).b, vals) IN
       IF r.st = "ok" THEN CVOk(CVB_freeze(r.b)) ELSE CVErr

\* CompactVector::from_slice(vals), every value of vals castable to usize.
CV_from_slice(vals) ==
  IF vals = <<>> THEN CVOk(CV_default)
  ELSE LET nb == CVB_with_capacity(Len(vals), needed_bits(CV_max_int(vals, {}))) IN
       IF nb.st # "ok" THEN CVErr
       ELSE LET r == CVB_extend(nb.b, vals) IN
            IF r.st = "ok" THEN CVOk(CVB_freeze(r.b)) ELSE CVErr

\* CompactVector::get_int(pos): chunks.get_bits(pos * width, width).
CV_get_int(v, pos, overflow_checks) ==
  IF MulOverflows(pos, v.width) /\ overflow_checks THEN Panic
  ELSE get_bits(v.chunks, pos * v.width, v.width, overflow_checks)

\* Access::access(pos)
CV_access(v, pos, overflow_checks) == CV_get_int(v, pos, overflow_checks)

\* CompactVector::to_vec(): the items Iter::next yields, access(pos).unwrap()
\* for every pos below len.
CV_to_vec(v, overflow_checks) ==
  IF \A pos \in 0 .. (v.len - 1) : IsSome(CV_access(v, pos, overflow_checks))
  THEN Some([i \in 1 .. v.len |-> CV_access(v, i - 1, overflow_checks).val])
  ELSE Panic

\* ------------------------------------------------------------------ DacsByte

LEVEL_WIDTH == 8

\* x & LEVEL_MASK as a byte: the bits 0..7 of x.
DB_low_byte(x) == x \cap LowMask(LEVEL_WIDTH)

\* utils::ceiled_divide(a, b)
ceiled_divide(a, b) == (a + b - 1) \div b

\* DacsByte::default(): a single empty level and no flags.
Dacs_default == [data |-> <<<<>>>>, flags |-> <<>>]

\* bvb.freeze::<Rank9SelIndex<true, true>>(): the data and its index.
DB_freeze_flags(b) ==
  LET d == into_data(b) IN [data |-> d, index |-> Rank9_build(d)]

RECURSIVE DB_maxv(_, _, _)
\* The fold maxv = maxv.max(x) over vals[lo..hi] (1-based, inclusive) from
\* maxv = 0, split in halves so that the evaluation depth stays logarithmic.
DB_maxv(vals, lo, hi) ==
  IF lo > hi THEN {}
  ELSE IF lo = hi THEN vals[lo]
  ELSE LET l == DB_maxv(vals, lo, (lo + hi) \div 2)
           r == DB_maxv(vals, ((lo + hi) \div 2) + 1, hi)
       IN IF WordLt(l, r) THEN r ELSE l

RECURSIVE DB_push_levels_NoStopFlag(_, _, _, _)
\* The mutant of the inner loop that records no flag where a value ends.
DB_push_levels_NoStopFlag(st, x, j, num_levels) ==
  LET st1 == [st EXCEPT !.data[j + 1] = Append(@, DB_low_byte(x))]
      y == Shr(x, LEVEL_WIDTH)
  IN
  IF j = num_levels - 1
  THEN IF y = {} THEN Done(st1) ELSE Panicked(st1)
  ELSE IF y = {}
  THEN Done(st1)
  ELSE DB_push_levels_NoStopFlag(
         [st1 EXCEPT !.flags[j + 1] = push_bit(@, TRUE).b],
         y, j + 1, num_levels)

RECURSIVE DB_push_levels(_, _, _, _)
\* The inner loop of from_slice from level j on, x being what is left of
\* the value: its low byte goes to data[j]; at the top level the rest must
\* be 0 (assert_eq), below it flags[j] tells whether more bytes follow.
DB_push_levels(st, x, j, num_levels) ==
  LET st1 == [st EXCEPT !.data[j + 1] = Append(@, DB_low_byte(x))]
      y == Shr(x, LEVEL_WIDTH)
  IN
  IF j = num_levels - 1
  THEN IF y = {} THEN Done(st1) ELSE Panicked(st1)
  ELSE IF y = {}
  THEN Done([st1 EXCEPT !.flags[j + 1] = push_bit(@, FALSE).b])
  ELSE DB_push_levels([st1 EXCEPT !.flags[j + 1] = push_bit(@, TRUE).b],
                      y, j + 1, num_levels)

RECURSIVE DB_push_vals(_, _, _, _, _)
\* The outer loop of from_slice over vals[lo..hi] (1-based, inclusive), in
\* order, stopping at the first panic; split in halves so that the
\* evaluation depth stays logarithmic.
DB_push_vals(st, vals, lo, hi, num_levels) ==
  IF lo > hi THEN Done(st)
  ELSE IF lo = hi THEN DB_push_levels(st, vals[lo], 0, num_levels)
  ELSE LET r == DB_push_vals(st, vals, lo, (lo + hi) \div 2, num_levels) IN
       IF r.st = "ok"
       THEN DB_push_vals(r.b, vals, ((lo + hi) \div 2) + 1, hi, num_levels)
       ELSE r

\* A constructor's Ok(seq) and a panic inside it.
DacsOk(s) == [st |-> "ok", s |-> s]

DacsPanic == [st |-> "panic", s |-> Dacs_default]

\* The levels of from_slice for num_levels levels (0: assert_ne fails; 1:
\* every value is cast to u8, which fails above 255).
DB_build(vals, num_levels) ==
  IF num_levels = 0 THEN DacsPanic
  ELSE IF num_levels = 1
  THEN IF \E i \in 1 .. Len(vals) : Shr(vals[i], LEVEL_WIDTH) # {}
       THEN DacsPanic
       ELSE DacsOk([data |-> <<[i \in 1 .. Len(vals) |-> vals[i]]>>,
                    flags |-> <<>>])
  ELSE LET r == DB_push_vals([data |-> [j \in 1 .. num_levels |-> <<>>],
                              flags |-> [j \in 1 .. (num_levels - 1) |->
                                          EmptyBuilder]],
                             vals, 1, Len(vals), num_levels)
       IN
       IF r.st = "ok"
       THEN DacsOk([data |-> r.b.data,
                    flags |-> [j \in 1 .. (num_levels - 1) |->
                                DB_freeze_flags(r.b.flags[j])]])
       ELSE DacsPanic

\* The mutant of from_slice that sizes the levels on the first value.
Dacs_from_slice_FirstLevels(vals) ==
  IF vals = <<>> THEN DacsOk(Dacs_default)
  ELSE DB_build(vals, ceiled_divide(needed_bits(Head(vals)), LEVEL_WIDTH))

\* DacsByte::from_slice(vals), every value of vals castable to usize.
Dacs_from_slice(vals) ==
  IF vals = <<>> THEN DacsOk(Dacs_default)
  ELSE DB_build(vals,
                ceiled_divide(needed_bits(DB_maxv(vals, 1, Len(vals))),
                              LEVEL_WIDTH))

\* DacsByte::len()
Dacs_len(s) == Len(s.data[1])

\* DacsByte::num_levels()
Dacs_num_levels(s) == Len(s.data)

RECURSIVE DB_walk_NoRank(_, _, _, _)
\* The mutant of the level walk that keeps pos from level to level.
DB_walk_NoRank(s, pos, j, x) ==
  LET lv == Index(s.data, j)
      byte == IF IsSome(lv) THEN Index(lv.val, pos) ELSE Panic
  IN
  IF ~IsSome(byte) THEN Panic
  ELSE IF j = Dacs_num_levels(s) - 1
  THEN Some(x \cup Shl(byte.val, j * LEVEL_WIDTH))
  ELSE LET f == Index(s.flags, j)
           a == IF IsSome(f) THEN access(f.val.data, pos) ELSE Panic
       IN
       IF ~IsSome(a) THEN Panic
       ELSE IF ~a.val THEN Some(x \cup Shl(byte.val, j * LEVEL_WIDTH))
       ELSE DB_walk_NoRank(s, pos, j + 1, x \cup Shl(byte.val, j * LEVEL_WIDTH))

RECURSIVE DB_walk(_, _, _, _)
\* The loop of access from level j on: x |= data[j][pos] << (j * 8); stop
\* at the top level or where flags[j] is unset at pos, else go on at
\* pos = flags[j].rank1(pos).  An index out of bounds and an unwrap of None
\* are panics.
DB_walk(s, pos, j, x) ==
  LET lv == Index(s.data, j)
      byte == IF IsSome(lv) THEN Index(lv.val, pos) ELSE Panic
  IN
  IF ~IsSome(byte) THEN Panic
  ELSE IF j = Dacs_num_levels(s) - 1
  THEN Some(x \cup Shl(byte.val, j * LEVEL_WIDTH))
  ELSE LET f == Index(s.flags, j)
           a == IF IsSome(f) THEN access(f.val.data, pos) ELSE Panic
       IN
       IF ~IsSome(a) THEN Panic
       ELSE IF ~a.val THEN Some(x \cup Shl(byte.val, j * LEVEL_WIDTH))
       ELSE LET r == Rank9_rank1(f.val.index, f.val.data, pos) IN
            IF ~IsSome(r) THEN Panic
            ELSE DB_walk(s, r.val, j + 1, x \cup Shl(byte.val, j * LEVEL_WIDTH))

\* Access::access(pos) of DacsByte
Dacs_access(s, pos) ==
  IF ULe(Dacs_len(s), pos) THEN None ELSE DB_walk(s, pos, 0, {})

\* ------------------------------------------------------------------ inputs

\* Values pushed by push_bits: usize::MAX, the 0b011111 of the crate's
\* word-crossing test, and a value with bits at both ends of the word.
BitsInputs == {BitIdx, {0, 1, 2, 3, 4}, {1, 62, 63}}

\* Bit counts given to push_bits (one above WORD_LEN is the rejected case).
LenInputs == {0, 1, 6, WORD_LEN - 1, WORD_LEN, WORD_LEN + 1}

\* Positions given to set_bit on builder b; -1 is usize::MAX.
SetPosInputs(b) ==
  {p \in {0, b.len - 1, b.len, WORD_LEN, -1} : p >= -1}

\* Bit sequences given to extend_bits: empty, short, the 62 unset bits of
\* the crate's word-crossing test, and one bit more than a word of set bits.
ExtendInputs ==
  {<<>>, <<TRUE, FALSE>>,
   [i \in 1 .. (WORD_LEN - 2) |-> FALSE],
   [i \in 1 .. (WORD_LEN + 1) |-> TRUE]}

\* Words found in a buffer given to from_bytes.
WordInputs == {{}, BitIdx, {0, 1}, {WORD_LEN - 1}}

\* Buffers given to from_bytes: aligned or not, empty, of half a word, and
\* of up to MaxBufWords whole words.
BytesInputs ==
  {[aligned |-> a, nbytes |-> 4 * h + (WORD_LEN \div 8) * Len(w), words |-> w] :
     a \in BOOLEAN, h \in {0, 1},
     w \in UNION {[1 .. n -> WordInputs] : n \in 0 .. MaxBufWords}}

\* Lengths given to from_bytes.
BytesLenInputs ==
  {0, 1, WORD_LEN - 1, WORD_LEN, WORD_LEN + 1, 2 * WORD_LEN, 2 * WORD_LEN + 1}

\* Integers given to DacsByte::from_slice: 0, 5, 0xFF, 0x100, 0xFFFF,
\* 0xFFFFF, 2^31, 2^32, 2^47, 2^48, 2^56, 2^63 and usize::MAX (every number
\* of levels from 1 to 8).
DacsValInputs ==
  {{}, {0, 2}, LowMask(8), {8}, LowMask(16), LowMask(20), {31}, {32}, {47},
   {48}, {56}, {WORD_LEN - 1}, BitIdx}

\* Slices given to DacsByte::from_slice: every slice of up to two of the
\* integers above, the slices of the crate's tests, and slices long enough
\* for a flag vector of exactly one word and of more than one word.
DacsSliceInputs ==
  UNION {[1 .. n -> DacsValInputs] : n \in 0 .. 2}
    \cup {<<LowMask(16), LowMask(8), LowMask(4), LowMask(20), LowMask(4)>>,
          <<{}, {}, {}, {}>>,
          [i \in 1 .. WORD_LEN |-> IF i % 4 = 0 THEN {1, 10} ELSE {i % 8}],
          [i \in 1 .. 70 |-> IF i % 3 = 0 THEN {0, 2} ELSE {i % 8, 8, 16}],
          [i \in 1 .. 130 |-> IF i % 2 = 0 THEN {i % 8} ELSE {9}]}

\* No DacsByte constructed yet.
NoDacs == [built |-> FALSE, s |-> Dacs_default]

\* No iterator created yet.
NoIter == [src |-> "none", pos |-> 0, out |-> None, calls |-> 0]

\* next() calls made on an iterator after it is exhausted.
MaxDrained == 2

\* The words RawBitVector::from_bits leaves for len bits following the
\* pattern pat: all set, none set, every other bit set, the first half of
\* the words set and the rest unset or the reverse, and only both end bits
\* set.  Bits past len in the last word are 0.
R9Bits(len, pat) ==
  [words |->
     [i \in 1 .. CeilWords(len) |->
        (CASE pat = "ones" -> BitIdx
           [] pat = "zeros" -> {}
           [] pat = "alt" -> {b \in BitIdx : b % 2 = 0}
           [] pat = "ones_zeros" ->
                IF 2 * i <= CeilWords(len) THEN BitIdx ELSE {}
           [] pat = "zeros_ones" ->
                IF 2 * i <= CeilWords(len) THEN {} ELSE BitIdx
           [] pat = "ends" ->
                (IF i = 1 THEN {0} ELSE {})
                  \cup (IF i = CeilWords(len) THEN {(len - 1) % WORD_LEN}
                        ELSE {}))
          \cap (IF i = CeilWords(len) /\ len % WORD_LEN # 0
                THEN LowMask(len % WORD_LEN) ELSE BitIdx)],
   len |-> len]

\* Bit sequences given to Rank9Sel::build_from_bits: those of the crate's
\* tests, sequences around one super-block, and sequences whose ones or
\* zeros reach one, two and four hint strides.
R9BitsInputs ==
  {<<0, "zeros">>, <<3, "zeros">>, <<3, "ones">>, <<4, "ends">>,
   <<R9_BLOCK_LEN, "ones">>, <<R9_BLOCK_LEN + 1, "alt">>,
   <<R9_HINT_STRIDE, "ones">>, <<R9_HINT_STRIDE + 1, "ones">>,
   <<R9_HINT_STRIDE + 1, "zeros">>,
   <<2 * R9_HINT_STRIDE + 100, "ones">>,
   <<2 * R9_HINT_STRIDE + 100, "zeros">>,
   <<5 * R9_HINT_STRIDE + 7, "alt">>,
   <<4 * R9_HINT_STRIDE + 2 * WORD_LEN, "ones_zeros">>,
   <<4 * R9_HINT_STRIDE + 2 * WORD_LEN, "zeros_ones">>}

\* Ranks given to select on the Rank9Sel rs over bv: around the super-block
\* size, the hint strides and the numbers of ones and of zeros; -1 is
\* usize::MAX.
R9SelInputs(rs, bv) ==
  {k \in {0, 1, R9_BLOCK_LEN - 1, R9_BLOCK_LEN,
          R9_HINT_STRIDE - 1, R9_HINT_STRIDE, R9_HINT_STRIDE + 1,
          2 * R9_HINT_STRIDE - 1, 2 * R9_HINT_STRIDE, -1,
          rs.idx.num_ones - 1, rs.idx.num_ones,
          bv.len - rs.idx.num_ones - 1, bv.len - rs.idx.num_ones} : k >= -1}

\* No Rank9Sel constructed yet.
NoRank9Sel ==
  [built |-> FALSE, with_rank |-> FALSE,
   rs |-> Rank9Sel_build_from_bits(DefaultData, FALSE, FALSE, FALSE),
   op |-> "none", k |-> 0, out |-> None]

\* No CompactVector constructed yet.
NoVector == [origin |-> "none", v |-> CV_default]

NoOp ==
  [op |-> "init", st |-> "ok", pre |-> EmptyBuilder,
   bits |-> {}, n |-> 0, pos |-> 0, bit |-> FALSE,
   aligned |-> TRUE, nbytes |-> 0,
   cvpre |-> CVB_default, vals |-> <<>>, width |-> 0]

\* ----------------------------------------------------------------- actions

Init ==
  /\ bld = EmptyBuilder
  /\ data = DefaultData
  /\ origin = "none"
  /\ last = NoOp
  /\ nops = 0
  /\ da = NoDArray
  /\ cvb = CVB_default
  /\ cv = NoVector
  /\ dacs = NoDacs
  /\ it = NoIter
  /\ r9s = NoRank9Sel

PushBit(bit) ==
  /\ origin \in {"none", "clone"}
  /\ nops < MaxOps
  /\ LET r == push_bit(bld, bit) IN
     /\ bld' = r.b
     /\ last' = [NoOp EXCEPT !.op = "push_bit", !.st = r.st, !.pre = bld,
                             !.bit = bit]
  /\ nops' = nops + 1
  /\ UNCHANGED <<data, origin, da, cvb, cv, dacs, it, r9s>>

PushBits(bits, len) ==
  /\ origin \in {"none", "clone"}
  /\ nops < MaxOps
  /\ LET r == push_bits(bld, bits, len) IN
     /\ bld' = r.b
     /\ last' = [NoOp EXCEPT !.op = "push_bits", !.st = r.st, !.pre = bld,
                             !.bits = bits, !.n = len]
  /\ nops' = nops + 1
  /\ UNCHANGED <<data, origin, da, cvb, cv, dacs, it, r9s>>

SetBit(pos, bit) ==
  /\ origin \in {"none", "clone"}
  /\ nops < MaxOps
  /\ LET r == set_bit(bld, pos, bit) IN
     /\ bld' = r.b
     /\ last' = [NoOp EXCEPT !.op = "set_bit", !.st = r.st, !.pre = bld,
                             !.pos = pos, !.bit = bit]
  /\ nops' = nops + 1
  /\ UNCHANGED <<data, origin, da, cvb, cv, dacs, it, r9s>>

ExtendBits(bits) ==
  /\ origin \in {"none", "clone"}
  /\ nops < MaxOps
  /\ LET r == extend_bits(bld, bits) IN
     /\ bld' = r.b
     /\ last' = [NoOp EXCEPT !.op = "extend_bits", !.st = r.st, !.pre = bld,
                             !.n = Len(bits)]
  /\ nops' = nops + 1
  /\ UNCHANGED <<data, origin, da, cvb, cv, dacs, it, r9s>>

\* builder.freeze::<I>(): consumes the builder, so no builder operation
\* follows it.  The index is a function of the data (I::build(&data)).
Freeze ==
  /\ origin = "none"
  /\ data' = into_data(bld)
  /\ origin' = "freeze"
  /\ last' = [NoOp EXCEPT !.op = "freeze", !.pre = bld]
  /\ UNCHANGED <<bld, nops, da, cvb, cv, dacs, it, r9s>>

Next ==
  \/ \E bit \in BOOLEAN : PushBit(bit)
  \/ \E bits \in BitsInputs, len \in LenInputs : PushBits(bits, len)
  \/ \E pos \in SetPosInputs(bld), bit \in BOOLEAN : SetBit(pos, bit)
  \/ \E bits \in ExtendInputs : ExtendBits(bits)
  \/ Freeze

Spec == Init /\ [][Next]_vars

\* BitVectorData::from_bytes(len, bytes) followed by BitVector::from(data):
\* a vector reconstructed from an externally owned buffer.
FromBytes(len, bytes) ==
  /\ LET r == from_bytes(len, bytes) IN
     /\ data' = IF r.st = "ok" THEN r.d ELSE data
     /\ origin' = IF r.st = "ok" THEN "from_bytes" ELSE origin
     /\ last' = [NoOp EXCEPT !.op = "from_bytes", !.st = r.st, !.n = len,
                             !.aligned = bytes.aligned,
                             !.nbytes = bytes.nbytes]
  /\ UNCHANGED <<bld, nops, da, cvb, cv, dacs, it, r9s>>

NextBytes == \E len \in BytesLenInputs, bytes \in BytesInputs : FromBytes(len, bytes)

SpecBytes == Init /\ [][NextBytes]_vars

\* Bit sequences given to DArray::from_bits: a run of set bits from position
\* 0, then one more set bit at position far (0: none), then DATailInputs
\* unset bits.  The runs end on both sides of a sub-sample and the far
\* positions lie on both sides of 2^16.
DARunInputs == {0, 1, 2, DA_SUBBLOCK_LEN, DA_SUBBLOCK_LEN + 1, 2 * DA_SUBBLOCK_LEN}

DAFarInputs == {0, 2 * DA_SUBBLOCK_LEN + 2, 200, DA_U16 - 1, DA_U16, DA_U16 + 4}

DATailInputs == {0, 1}

DArrayFromBits(run, far, tail) ==
  /\ origin = "none"
  /\ nops = 0
  /\ \E bv \in {from_bits((IF far = 0 THEN run ELSE far + 1) + tail,
                          (0 .. (run - 1)) \cup (IF far = 0 THEN {} ELSE {far}))} :
       /\ data' = bv
       /\ da' = DArray_from_bits(bv)
  /\ origin' = "from_bits"
  /\ last' = [NoOp EXCEPT !.op = "from_bits", !.n = run, !.pos = far]
  /\ UNCHANGED <<bld, nops, cvb, cv, dacs, it, r9s>>

EnableRank ==
  /\ da.built
  /\ ~IsSome(da.r9)
  /\ da' = enable_rank(da, data)
  /\ last' = [last EXCEPT !.op = "enable_rank"]
  /\ UNCHANGED <<bld, data, origin, nops, cvb, cv, dacs, it, r9s>>

EnableSelect0 ==
  /\ da.built
  /\ ~IsSome(da.s0)
  /\ da' = enable_select0(da, data)
  /\ last' = [last EXCEPT !.op = "enable_select0"]
  /\ UNCHANGED <<bld, data, origin, nops, cvb, cv, dacs, it, r9s>>

NextDA ==
  \/ \E run \in DARunInputs, far \in DAFarInputs, tail \in DATailInputs :
       DArrayFromBits(run, far, tail)
  \/ EnableRank
  \/ EnableSelect0

SpecDA == Init /\ [][NextDA]_vars

\* Widths given to the constructors: both rejected neighbours of 1..=64, and
\* widths that make an integer straddle a word (3 and 63).
CVWidthInputs == {0, 1, 3, WORD_LEN - 1, WORD_LEN, WORD_LEN + 1}

\* Integers given to push_int, set_int and from_int: 0, 1, 7, 8, 2^62 + 1,
\* 2^63 and usize::MAX.
CVValInputs ==
  {{}, {0}, {0, 1, 2}, {3}, {0, WORD_LEN - 2}, {WORD_LEN - 1}, BitIdx}

\* Integers given to set_int: 0, 1, 7, 2^62 + 1 and usize::MAX.
CVSetValInputs == {{}, {0}, {0, 1, 2}, {0, WORD_LEN - 2}, BitIdx}

\* Positions given to set_int on builder b: the first and the last stored
\* integer, and the first position out of range.
CVPosInputs(b) == {p \in {0, b.len - 1, b.len} : p >= 0}

\* Slices given to extend and from_slice: empty, a single 0, values of three
\* bits, an 8 before, between and after smaller values, 64-bit and 63-bit
\* values, and 22 values of three bits (the last one straddles a word).
CVSliceInputs ==
  {<<>>, <<{}>>, <<{0}, {0, 1, 2}>>, <<{3}>>, <<{0, 1, 2}, {3}, {0}>>,
   <<{0}, {0, 1}, {3}>>, <<BitIdx, {0, WORD_LEN - 2}>>,
   <<{0, WORD_LEN - 2}, {0}, {0, WORD_LEN - 2}>>,
   [i \in 1 .. 22 |-> {0, 1, 2}]}

\* Lengths given to from_int and capacities given to with_capacity.
CVLenInputs == {0, 1, 2, 22}

\* CompactVectorBuilder::new(width) / CompactVector::new(width).  A run
\* uses the builder or one of the constructors of the vector.
CVNew(width) ==
  /\ cv.origin \in {"none", "freeze"}
  /\ cvb = CVB_default
  /\ nops = 0
  /\ LET r == CVB_new(width) IN
     /\ cvb' = IF r.st = "ok" THEN r.b ELSE cvb
     /\ last' = [NoOp EXCEPT !.op = "cv_new", !.st = r.st, !.cvpre = cvb,
                             !.width = width]
  /\ UNCHANGED <<bld, data, origin, nops, da, cv, dacs, it, r9s>>

\* CompactVectorBuilder::with_capacity(capa, width)
CVWithCapacity(capa, width) ==
  /\ cv.origin \in {"none", "freeze"}
  /\ cvb = CVB_default
  /\ nops = 0
  /\ LET r == CVB_with_capacity(capa, width) IN
     /\ cvb' = IF r.st = "ok" THEN r.b ELSE cvb
     /\ last' = [NoOp EXCEPT !.op = "cv_with_capacity", !.st = r.st,
                             !.cvpre = cvb, !.n = capa, !.width = width]
  /\ UNCHANGED <<bld, data, origin, nops, da, cv, dacs, it, r9s>>

CVPushInt(val) ==
  /\ cv.origin \in {"none", "freeze"}
  /\ nops < MaxOps
  /\ LET r == CVB_push_int(cvb, val) IN
     /\ cvb' = r.b
     /\ last' = [NoOp EXCEPT !.op = "push_int", !.st = r.st, !.cvpre = cvb,
                             !.bits = val]
  /\ nops' = nops + 1
  /\ UNCHANGED <<bld, data, origin, da, cv, dacs, it, r9s>>

CVSetInt(pos, val) ==
  /\ cv.origin \in {"none", "freeze"}
  /\ nops < MaxOps
  /\ LET r == CVB_set_int(cvb, pos, val) IN
     /\ cvb' = r.b
     /\ last' = [NoOp EXCEPT !.op = "set_int", !.st = r.st, !.cvpre = cvb,
                             !.pos = pos, !.bits = val]
  /\ nops' = nops + 1
  /\ UNCHANGED <<bld, data, origin, da, cv, dacs, it, r9s>>

CVExtend(vals) ==
  /\ cv.origin \in {"none", "freeze"}
  /\ nops < MaxOps
  /\ LET r == CVB_extend(cvb, vals) IN
     /\ cvb' = r.b
     /\ last' = [NoOp EXCEPT !.op = "extend", !.st = r.st, !.cvpre = cvb,
                             !.vals = vals]
  /\ nops' = nops + 1
  /\ UNCHANGED <<bld, data, origin, da, cv, dacs, it, r9s>>

\* builder.clone().freeze(): the copy is consumed, the builder lives on.
CVFreeze ==
  /\ cv.origin = "none"
  /\ cv' = [origin |-> "freeze", v |-> CVB_freeze(cvb)]
  /\ last' = [NoOp EXCEPT !.op = "cv_freeze", !.cvpre = cvb]
  /\ UNCHANGED <<bld, data, origin, nops, da, cvb, dacs, it, r9s>>

CVFromInt(val, len, width) ==
  /\ cv.origin = "none"
  /\ cvb = CVB_default
  /\ nops = 0
  /\ LET r == CV_from_int(val, len, width) IN
     /\ cv' = IF r.st = "ok" THEN [origin |-> "from_int", v |-> r.v] ELSE cv
     /\ last' = [NoOp EXCEPT !.op = "from_int", !.st = r.st, !.bits = val,
                             !.n = len, !.width = width]
  /\ UNCHANGED <<bld, data, origin, nops, da, cvb, dacs, it, r9s>>

CVFromSlice(vals) ==
  /\ cv.origin = "none"
  /\ cvb = CVB_default
  /\ nops = 0
  /\ LET r == CV_from_slice(vals) IN
     /\ cv' = IF r.st = "ok" THEN [origin |-> "from_slice", v |-> r.v] ELSE cv
     /\ last' = [NoOp EXCEPT !.op = "from_slice", !.st = r.st, !.vals = vals]
  /\ UNCHANGED <<bld, data, origin, nops, da, cvb, dacs, it, r9s>>

\* CompactVector::default()
CVDefault ==
  /\ cv.origin = "none"
  /\ cvb = CVB_default
  /\ nops = 0
  /\ cv' = [origin |-> "default", v |-> CV_default]
  /\ last' = [NoOp EXCEPT !.op = "cv_default"]
  /\ UNCHANGED <<bld, data, origin, nops, da, cvb, dacs, it, r9s>>

\* builder.clone().freeze::<I>(): the copy is consumed, the builder lives on.
FreezeClone ==
  /\ origin = "none"
  /\ data' = into_data(bld)
  /\ origin' = "clone"
  /\ last' = [NoOp EXCEPT !.op = "freeze_clone", !.pre = bld]
  /\ UNCHANGED <<bld, nops, da, cvb, cv, dacs, it, r9s>>

\* The operations of the compact vector and of its builder.
CVOps ==
  {"cv_new", "cv_with_capacity", "push_int", "set_int", "extend", "cv_freeze",
   "from_int", "from_slice", "cv_default"}

\* A run works on one of the two builders: the bit builder is used only
\* while no compact vector or builder of one has been made.
BitBuilderRun == cvb = CVB_default /\ cv = NoVector /\ last.op \notin CVOps

CompactVectorRun == bld = EmptyBuilder /\ origin = "none"

NextCV ==
  \/ BitBuilderRun /\ Next
  \/ BitBuilderRun /\ FreezeClone
  \/ CompactVectorRun /\ \E width \in CVWidthInputs : CVNew(width)
  \/ CompactVectorRun /\ \E capa \in CVLenInputs, width \in CVWidthInputs : CVWithCapacity(capa, width)
  \/ CompactVectorRun /\ \E val \in CVValInputs : CVPushInt(val)
  \/ CompactVectorRun /\ \E pos \in CVPosInputs(cvb), val \in CVSetValInputs : CVSetInt(pos, val)
  \/ CompactVectorRun /\ \E vals \in CVSliceInputs : CVExtend(vals)
  \/ CompactVectorRun /\ CVFreeze
  \/ CompactVectorRun /\ \E val \in CVValInputs, len \in CVLenInputs, width \in CVWidthInputs :
       CVFromInt(val, len, width)
  \/ CompactVectorRun /\ \E vals \in CVSliceInputs : CVFromSlice(vals)
  \/ CompactVectorRun /\ CVDefault

SpecCV == Init /\ [][NextCV]_vars

DacsFromSlice(vals) ==
  /\ CompactVectorRun
  /\ cvb = CVB_default
  /\ cv = NoVector
  /\ nops = 0
  /\ ~dacs.built
  /\ \E r \in {Dacs_from_slice(vals)} :
       /\ dacs' = IF r.st = "ok" THEN [built |-> TRUE, s |-> r.s] ELSE dacs
       /\ last' = [NoOp EXCEPT !.op = "dacs_from_slice", !.st = r.st,
                               !.vals = vals]
  /\ UNCHANGED <<bld, data, origin, nops, da, cvb, cv, it, r9s>>

\* CompactVector::iter()
IterCV ==
  /\ cv.origin # "none"
  /\ it.src = "none"
  /\ it' = [NoIter EXCEPT !.src = "cv"]
  /\ UNCHANGED <<bld, data, origin, last, nops, da, cvb, cv, dacs, r9s>>

\* DacsByte::iter()
IterDacs ==
  /\ dacs.built
  /\ it.src = "none"
  /\ it' = [NoIter EXCEPT !.src = "dacs"]
  /\ UNCHANGED <<bld, data, origin, last, nops, da, cvb, cv, dacs, r9s>>

\* The len() of the sequence the iterator i runs over.
Iter_len(i) == IF i.src = "cv" THEN cv.v.len ELSE Dacs_len(dacs.s)

\* self.access(self.pos) on the sequence the iterator i runs over.
Iter_access(i, overflow_checks) ==
  IF i.src = "cv" THEN CV_access(cv.v, i.pos, overflow_checks)
  ELSE Dacs_access(dacs.s, i.pos)

\* Iterator::next() of both iterators: access(pos).unwrap() and pos += 1
\* while pos < len, else None.
Iter_next(i, overflow_checks) ==
  IF i.pos < Iter_len(i)
  THEN LET x == Iter_access(i, overflow_checks) IN
       IF IsSome(x)
       THEN [i EXCEPT !.pos = @ + 1, !.out = x, !.calls = @ + 1]
       ELSE [i EXCEPT !.out = Panic, !.calls = @ + 1]
  ELSE [i EXCEPT !.out = None, !.calls = @ + 1]

\* Iterator::size_hint() of both iterators: (len, Some(len)).
Iter_size_hint(i) == [lo |-> Iter_len(i), hi |-> Some(Iter_len(i))]

IterNext(overflow_checks) ==
  /\ it.src # "none"
  /\ it.out # Panic
  /\ it.calls < Iter_len(it) + MaxDrained
  /\ it' = Iter_next(it, overflow_checks)
  /\ UNCHANGED <<bld, data, origin, last, nops, da, cvb, cv, dacs, r9s>>

NextDacs ==
  \/ \E vals \in DacsSliceInputs : DacsFromSlice(vals)
  \/ CompactVectorRun /\ ~dacs.built /\ \E vals \in CVSliceInputs : CVFromSlice(vals)
  \/ IterCV
  \/ IterDacs
  \/ \E oc \in BOOLEAN : IterNext(oc)

SpecDacs == Init /\ [][NextDacs]_vars

\* Rank9Sel::build_from_bits(bits, with_rank, with_select1, with_select0)
R9BuildFromBits(len, pat, with_rank, with_select1, with_select0) ==
  /\ origin = "none"
  /\ nops = 0
  /\ ~r9s.built
  /\ \E bv \in {R9Bits(len, pat)} :
       /\ data' = bv
       /\ r9s' = [NoRank9Sel EXCEPT
                    !.built = TRUE, !.with_rank = with_rank,
                    !.rs = Rank9Sel_build_from_bits(bv, with_rank,
                                                    with_select1,
                                                    with_select0)]
  /\ origin' = "from_bits"
  /\ last' = [NoOp EXCEPT !.op = "build_from_bits", !.n = len]
  /\ UNCHANGED <<bld, nops, da, cvb, cv, dacs, it>>

\* Rank9Sel::select1(k)
R9Select1(k) ==
  /\ r9s.built
  /\ r9s' = [r9s EXCEPT !.op = "select1", !.k = k,
                         !.out = Rank9Sel_select1(r9s.rs, data, k)]
  /\ UNCHANGED <<bld, data, origin, last, nops, da, cvb, cv, dacs, it>>

\* Rank9Sel::select0(k)
R9Select0(k) ==
  /\ r9s.built
  /\ r9s' = [r9s EXCEPT !.op = "select0", !.k = k,
                         !.out = Rank9Sel_select0(r9s.rs, data, k)]
  /\ UNCHANGED <<bld, data, origin, last, nops, da, cvb, cv, dacs, it>>

NextR9 ==
  \/ \E inp \in R9BitsInputs, wr \in BOOLEAN, w1 \in BOOLEAN, w0 \in BOOLEAN :
       R9BuildFromBits(inp[1], inp[2], wr, w1, w0)
  \/ \E k \in R9SelInputs(r9s.rs, data) : R9Select1(k)
  \/ \E k \in R9SelInputs(r9s.rs, data) : R9Select0(k)

SpecR9 == Init /\ [][NextR9]_vars

\* --------------------------------------------------- reference semantics

\* The bit stored at position p, FALSE where the words do not reach.
StoredBit(d, p) ==
  /\ p \div WORD_LEN < Len(d.words)
  /\ BitAt(d.words, p)

\* The positions below bound whose bit is set (resp. unset), all below len.
OnesBelow(d, bound) == {p \in 0 .. (bound - 1) : p < d.len /\ StoredBit(d, p)}

ZerosBelow(d, bound) ==
  {p \in 0 .. (bound - 1) : p < d.len /\ ~StoredBit(d, p)}

\* Query arguments: every position up to one past len, a position more than
\* a word past len, and usize::MAX.
PosInputs(d) == (0 .. (d.len + 1)) \cup {d.len + WORD_LEN, -1}

\* The data satisfies the data model's invariant words.length >= ceil(len/W).
WellSized(d) == Len(d.words) >= CeilWords(d.len)

Frozen == origin = "freeze"

\* ----------------------------------------------------------------- claims

\* C1: on a BitVector<NoIndex> frozen from a builder, for every
\* k < num_ones select1(k) is Some(p) with p < len, access(p) = Some(true),
\* rank1(p) = Some(k) and rank1(p + 1) = Some(k + 1).
C1_Select1RankAccess ==
  Frozen =>
    \A k \in 0 .. (NoIndex_num_ones(data) - 1) :
      \A s \in {NoIndex_select1(data, k)} :
        /\ IsSome(s)
        /\ s.val < data.len
        /\ access(data, s.val) = Some(TRUE)
        /\ NoIndex_rank1(data, s.val) = Some(k)
        /\ NoIndex_rank1(data, s.val + 1) = Some(k + 1)

\* A frozen vector of more than one word whose last set bit lies in the
\* second word, after a set bit in the first.
C1_Witness ==
  /\ Frozen
  /\ data.len > WORD_LEN
  /\ NoIndex_num_ones(data) >= 2
  /\ NoIndex_select1(data, 0) \in {Some(p) : p \in 0 .. (WORD_LEN - 1)}
  /\ NoIndex_select1(data, NoIndex_num_ones(data) - 1)
       \in {Some(p) : p \in WORD_LEN .. (data.len - 1)}

\* C2: on a BitVector<NoIndex> frozen from a builder, for every
\* k < num_zeros select0(k) is Some(p) with p < len, access(p) = Some(false)
\* and rank0(p) = Some(k); for every k >= num_zeros select0(k) is None.
C2_Select0 ==
  Frozen =>
    \A nz \in {data.len - NoIndex_num_ones(data)} :
      /\ NoIndex_num_zeros(data, TRUE) = Some(nz)
      /\ nz = Cardinality(ZerosBelow(data, data.len))
      /\ \A k \in (0 .. (nz + WORD_LEN)) \cup {-1} :
           \A s \in {NoIndex_select0(data, k)} :
             IF ULt(k, nz)
             THEN /\ IsSome(s)
                  /\ s.val < data.len
                  /\ access(data, s.val) = Some(FALSE)
                  /\ NoIndex_rank0(data, s.val) = Some(k)
             ELSE s = None

\* A frozen vector that ends inside its second word (so the last word has an
\* unused tail of zero bits) and has unset bits in both words.
C2_Witness ==
  /\ Frozen
  /\ data.len > WORD_LEN
  /\ data.len % WORD_LEN # 0
  /\ ZerosBelow(data, WORD_LEN) # {}
  /\ ZerosBelow(data, data.len) \ ZerosBelow(data, WORD_LEN) # {}
  /\ NoIndex_select0(data, Cardinality(ZerosBelow(data, data.len))) = None

\* C3: NoIndex rank1(pos) is Some(number of set bits in [0, pos)) for every
\* pos in 0..=len and None for every pos > len; rank0(pos) is defined exactly
\* where rank1(pos) is and rank1(pos) + rank0(pos) = pos.  The count is
\* stated by its recurrence: rank1(0) = 0 and rank1(pos + 1) is rank1(pos)
\* plus one exactly when the bit at pos is set.
C3_Rank ==
  Frozen =>
    \A pos \in PosInputs(data) :
      \A r1 \in {NoIndex_rank1(data, pos)}, r0 \in {NoIndex_rank0(data, pos)} :
        IF ULe(pos, data.len)
        THEN /\ IsSome(r1)
             /\ IsSome(r0)
             /\ r1.val + r0.val = pos
             /\ pos = 0 => r1.val = 0
             /\ pos > 0 =>
                  r1 = Some(NoIndex_rank1(data, pos - 1).val
                              + (IF StoredBit(data, pos - 1) THEN 1 ELSE 0))
        ELSE r1 = None /\ r0 = None

\* A frozen vector whose length is a non-zero multiple of the word size and
\* whose last bit is set: rank1(len) counts it without a word past the end.
C3_Witness ==
  /\ Frozen
  /\ data.len > 0
  /\ data.len % WORD_LEN = 0
  /\ StoredBit(data, data.len - 1)
  /\ NoIndex_rank1(data, data.len) = Some(NoIndex_num_ones(data))

\* The claimed out-of-range condition of get_bits, n > W or pos + n > len,
\* over the unbounded integers (a negative pos stands for pos + 2^64).
GetBitsOutOfRange(d, pos, n) == n > WORD_LEN \/ pos < 0 \/ pos + n > d.len

\* C8: get_bits(pos, n) is None exactly when n > W or pos + n > len;
\* otherwise it is Some(v) with v < 2^n and bit i of v equal to the bit at
\* position pos + i for every i < n (so n = 0 gives Some(0)).
C8_GetBits ==
  Frozen =>
    \A pos \in PosInputs(data), n \in 0 .. (WORD_LEN + 1),
       overflow_checks \in BOOLEAN :
      \A r \in {get_bits(data, pos, n, overflow_checks)} :
        IF GetBitsOutOfRange(data, pos, n)
        THEN r = None
        ELSE /\ IsSome(r)
             /\ r.val \subseteq LowMask(n)
             /\ \A i \in 0 .. (n - 1) :
                  (i \in r.val) = StoredBit(data, pos + i)

RECURSIVE PushBitRun(_, _, _, _, _)
\* push_bit called on b with bits i, i + 1, ..., n - 1 of v, in that order,
\* ends in the builder state target.
PushBitRun(b, v, n, i, target) ==
  IF i >= n THEN b = target
  ELSE \A r \in {push_bit(b, i \in v)} :
         r.st = "ok" /\ PushBitRun(r.b, v, n, i + 1, target)

\* C9: for every n in 0..=W, push_bits(v, n) succeeds and leaves the builder
\* in exactly the state (len and words) reached by n successive push_bit
\* calls with bits 0, 1, ..., n - 1 of v.
C9_PushBitsAsPushBit ==
  (last.op = "push_bits" /\ ULe(last.n, WORD_LEN)) =>
    /\ last.st = "ok"
    /\ PushBitRun(last.pre, last.bits, last.n, 0, bld)

\* push_bits of a value with bits above the low n, written across a word
\* boundary.
C9_Witness ==
  /\ last.op = "push_bits"
  /\ last.st = "ok"
  /\ last.pre.len % WORD_LEN # 0
  /\ (last.pre.len % WORD_LEN) + last.n > WORD_LEN
  /\ last.bits \ LowMask(last.n) # {}
  /\ Len(bld.words) = Len(last.pre.words) + 1

\* C10: set_bit(pos, b) fails exactly when pos >= len; when it succeeds the
\* bit at pos equals b afterwards and len, the number of words and every
\* other stored bit are unchanged.
C10_SetBitFrame ==
  last.op = "set_bit" =>
    /\ last.st \in {"ok", "err"}
    /\ (last.st = "err") = ULe(last.pre.len, last.pos)
    /\ last.st = "ok" =>
         /\ bld.len = last.pre.len
         /\ Len(bld.words) = Len(last.pre.words)
         /\ \A p \in 0 .. (Len(bld.words) * WORD_LEN - 1) :
              BitAt(bld.words, p) =
                IF p = last.pos THEN last.bit ELSE BitAt(last.pre.words, p)

\* A set bit in the second word is cleared by a successful set_bit.
C10_Witness ==
  /\ last.op = "set_bit"
  /\ last.st = "ok"
  /\ last.pos >= WORD_LEN
  /\ BitAt(last.pre.words, last.pos)
  /\ ~last.bit
  /\ ~BitAt(bld.words, last.pos)

\* C6: from_bytes(len, bytes) returns an error whenever bytes is not aligned
\* to a word or shorter than ceil(len/W)*(W/8) bytes, so every data it
\* returns has words.length >= ceil(len/W) and access(pos) for pos < len
\* never indexes outside words.
C6_FromBytesValidates ==
  last.op = "from_bytes" =>
    /\ (~last.aligned \/ last.nbytes < CeilWords(last.n) * (WORD_LEN \div 8))
         => last.st = "err"
    /\ last.st = "ok" =>
         /\ WellSized(data)
         /\ \A pos \in 0 .. (data.len - 1) : access(data, pos) # Panic

\* C7: num_ones equals the number of positions p < len whose bit is set
\* (bits at positions >= len do not contribute) and num_ones + num_zeros =
\* len.  Stated for reconstructed data that has all the words len needs.
C7_NumOnesIgnoresTail ==
  (origin = "from_bytes" /\ WellSized(data)) =>
    /\ NoIndex_num_ones(data) = Cardinality(OnesBelow(data, data.len))
    /\ \A overflow_checks \in BOOLEAN :
         NoIndex_num_zeros(data, overflow_checks)
           = Some(data.len - NoIndex_num_ones(data))
    /\ NoIndex_num_ones(data) <= data.len

\* C4: Rank9SelIndex and NoIndex return the same result for every query on
\* every frozen vector: num_ones, rank1(pos) and rank0(pos) for every pos
\* (Some for pos in 0..=u, None for pos > u), select1(k) and select0(k) for
\* every k.
C4_Rank9AgreesWithNoIndex ==
  Frozen =>
    \A rs \in {Rank9_build(data)} :
      /\ Rank9_num_ones(rs) = NoIndex_num_ones(data)
      /\ \A pos \in PosInputs(data) :
           /\ Rank9_rank1(rs, data, pos) = NoIndex_rank1(data, pos)
           /\ Rank9_rank0(rs, data, pos) = NoIndex_rank0(data, pos)
      /\ \A k \in PosInputs(data) :
           /\ Rank9_select1(rs, data, k) = NoIndex_select1(data, k)
           /\ Rank9_select0(rs, data, k) = NoIndex_select0(data, k)

\* Ranks given to select on the DArray a over bv: around the sub-sample
\* period and around the numbers of ones and of zeros; -1 is usize::MAX.
DASelInputs(a, bv) ==
  {k \in {0, 1, DA_SUBBLOCK_LEN - 1, DA_SUBBLOCK_LEN, DA_SUBBLOCK_LEN + 1,
          2 * DA_SUBBLOCK_LEN, -1,
          a.s1.num_positions - 1, a.s1.num_positions,
          bv.len - a.s1.num_positions - 1, bv.len - a.s1.num_positions,
          bv.len - a.s1.num_positions + 1} : k >= -1}

\* C5: on every bit sequence and for every k, DArray select1(k) and, with
\* the zero-polarity index enabled, select0(k) return what Rank9SelIndex
\* returns.
C5_DArrayAgreesWithRank9 ==
  da.built =>
    \A rs \in {Rank9_build(data)} :
      \A k \in DASelInputs(da, data) :
        /\ DArray_select1(da, data, k) = Rank9_select1(rs, data, k)
        /\ IsSome(da.s0) =>
             DArray_select0(da, data, k) = Rank9_select0(rs, data, k)

\* ------------------------------------------------------------ claims C11..

\* The builder b holds the same len and the same bit at every position as
\* the builder pre.
SameBits(b, pre) ==
  /\ b.len = pre.len
  /\ \A p \in 0 .. (pre.len - 1) : BitAt(b.words, p) = BitAt(pre.words, p)

\* C11: when push_bits, set_bit, push_int or set_int returns an error, the
\* builder's len and every stored bit are as before the call, and freezing
\* the builder yields the vector that freezing it before the call yields.
C11_FailedCallLeavesBuilder ==
  /\ (last.op \in {"push_bits", "set_bit"} /\ last.st = "err") =>
       /\ SameBits(bld, last.pre)
       /\ into_data(bld) = into_data(last.pre)
  /\ (last.op \in {"push_int", "set_int"} /\ last.st = "err") =>
       /\ cvb.len = last.cvpre.len
       /\ SameBits(cvb.chunks, last.cvpre.chunks)
       /\ CVB_freeze(cvb) = CVB_freeze(last.cvpre)

\* set_int rejected an unfit value aimed at a stored integer with set bits.
C11_Witness ==
  /\ last.op = "set_int"
  /\ last.st = "err"
  /\ ULt(last.pos, last.cvpre.len)
  /\ Unfit(last.bits, last.cvpre.width)
  /\ SumPop(last.cvpre.chunks.words, Len(last.cvpre.chunks.words)) > 0

\* The data r holds the len of d and the bit of d at every position.
BitEqual(r, d) ==
  /\ r.len = d.len
  /\ \A p \in 0 .. (d.len - 1) : access(r, p) = access(d, p)

CVB_stored(b, pos) ==
  {i \in 0 .. (b.width - 1) : BitAt(b.chunks.words, pos * b.width + i)}

\* C13: the structure produced by freeze holds what the builder held when
\* it was frozen (every bit, resp. every integer, of the mutations made
\* before), and once produced it never changes, whatever is done afterwards
\* to a copy of the builder.
C13_FreezeThenImmutable ==
  [][/\ (origin = "none" /\ origin' \in {"freeze", "clone"}) =>
          /\ data'.len = bld.len
          /\ \A p \in 0 .. (bld.len - 1) :
               access(data', p) = Some(BitAt(bld.words, p))
     /\ (origin \in {"freeze", "clone"}) => data' = data
     /\ (cv.origin = "none" /\ cv'.origin = "freeze") =>
          /\ cv'.v.len = cvb.len
          /\ cv'.v.width = cvb.width
          /\ \A pos \in 0 .. (cvb.len - 1) :
               CV_get_int(cv'.v, pos, TRUE) = Some(CVB_stored(cvb, pos))
     /\ (cv.origin # "none") => cv' = cv]_vars

\* After the freeze, set_int changed an integer of the builder's copy, so
\* that the builder no longer holds what the frozen vector holds.
C13_Witness ==
  /\ cv.origin = "freeze"
  /\ last.op = "set_int"
  /\ last.st = "ok"
  /\ cv.v.len > 0
  /\ cv.v.len = cvb.len
  /\ CVB_freeze(cvb) # cv.v

\* The least width of 1 or more in which every value of vals can be written.
WidthFor(vals) ==
  LET used == UNION {vals[i] : i \in 1 .. Len(vals)} IN
  IF used = {} THEN 1 ELSE 1 + CHOOSE i \in used : \A j \in used : j <= i

\* C14: from_slice(v) succeeds, has len = |v|, and iterating it (to_vec)
\* yields exactly v in order; for non-empty v its width is the number of
\* bits needed for the largest value of v, 1 when that value is 0.
C14_FromSliceRoundTrip ==
  (last.op = "from_slice") =>
    /\ last.st = "ok"
    /\ cv.origin = "from_slice"
    /\ cv.v.len = Len(last.vals)
    /\ \A oc \in BOOLEAN : CV_to_vec(cv.v, oc) = Some(last.vals)
    /\ (last.vals # <<>>) => cv.v.width = WidthFor(last.vals)

\* from_slice of three values of 63 bits: the second straddles two words.
C14_Witness ==
  /\ last.op = "from_slice"
  /\ last.st = "ok"
  /\ Len(last.vals) = 3
  /\ cv.v.width = WORD_LEN - 1
  /\ num_words(cv.v.chunks) > 2

\* C15: every CompactVector made by a public constructor (a frozen builder,
\* from_int, from_slice, Default) has a width from 1 to 64 and
\* chunks.len = len * width.
C15_WidthAndChunksLen ==
  (cv.origin # "none") =>
    /\ 1 <= cv.v.width
    /\ cv.v.width <= WORD_LEN
    /\ cv.v.chunks.len = cv.v.len * cv.v.width

\* The integer the vector v stores at position pos.
CV_stored(v, pos) ==
  {i \in 0 .. (v.width - 1) : StoredBit(v.chunks, pos * v.width + i)}

\* Positions given to get_int on vector v: every position up to one past
\* len, and usize::MAX.
CVQueryInputs(v) == (0 .. (v.len + 1)) \cup {-1}

\* C16: on every vector made, get_int(pos) and access(pos) return Some(the
\* integer stored at pos) when pos < len and None when pos >= len.
C16_GetInt ==
  (cv.origin # "none") =>
    \A pos \in CVQueryInputs(cv.v), oc \in BOOLEAN :
      /\ CV_get_int(cv.v, pos, oc) =
           IF ULt(pos, cv.v.len) THEN Some(CV_stored(cv.v, pos)) ELSE None
      /\ CV_access(cv.v, pos, oc) = CV_get_int(cv.v, pos, oc)

\* The value v has a set bit at or above bit width.
TooWide(v, width) == \E i \in v : i >= width

\* C17: push_int(v) is rejected exactly when width # 64 and v has a bit at
\* or above width; when accepted, len grows by one, the integer at the new
\* last position reads back as v after freeze, and every integer stored
\* before reads back as before.
C17_PushInt ==
  (last.op = "push_int") =>
    LET pre == last.cvpre
        v == last.bits
    IN
    /\ last.st \in {"ok", "err"}
    /\ (last.st = "err") <=> (pre.width # WORD_LEN /\ TooWide(v, pre.width))
    /\ (last.st = "ok") =>
         /\ cvb.len = pre.len + 1
         /\ cvb.width = pre.width
         /\ \A pos \in 0 .. pre.len, oc \in BOOLEAN :
              CV_get_int(CVB_freeze(cvb), pos, oc) =
                Some(IF pos = pre.len THEN v ELSE CVB_stored(pre, pos))

\* push_int accepted an integer whose bits lie in two words, after another
\* integer with set bits.
C17_Witness ==
  /\ last.op = "push_int"
  /\ last.st = "ok"
  /\ last.cvpre.len >= 1
  /\ CVB_stored(last.cvpre, 0) # {}
  /\ (last.cvpre.len * cvb.width) \div WORD_LEN
       # (cvb.len * cvb.width - 1) \div WORD_LEN
  /\ (WORD_LEN - 2) \in last.bits
  /\ 0 \in last.bits

\* C18: a successful set_int(p, v) makes the integer at position p read
\* back as v after freeze and leaves len, width and the integer at every
\* other position as they were.
C18_SetIntFrame ==
  (last.op = "set_int" /\ last.st = "ok") =>
    LET pre == last.cvpre IN
    /\ ULt(last.pos, pre.len)
    /\ cvb.len = pre.len
    /\ cvb.width = pre.width
    /\ cvb.chunks.len = pre.chunks.len
    /\ \A pos \in 0 .. (pre.len - 1), oc \in BOOLEAN :
         CV_get_int(CVB_freeze(cvb), pos, oc) =
           Some(IF pos = last.pos THEN last.bits ELSE CVB_stored(pre, pos))

\* set_int changed an integer that shares a word with another integer
\* holding set bits.
C18_Witness ==
  /\ last.op = "set_int"
  /\ last.st = "ok"
  /\ cvb.width \in 1 .. (WORD_LEN - 1)
  /\ CVB_stored(last.cvpre, last.pos) # last.bits
  /\ \E q \in 0 .. (cvb.len - 1) :
       /\ q # last.pos
       /\ CVB_stored(last.cvpre, q) # {}
       /\ (q * cvb.width) \div WORD_LEN = (last.pos * cvb.width) \div WORD_LEN

\* C19: when extend(vals) returns an error, the builder's len and stored
\* integers are as before the call, wherever the unfit value is in vals.
C19_ExtendAllOrNothing ==
  (last.op = "extend" /\ last.st = "err") =>
    /\ cvb.len = last.cvpre.len
    /\ \A pos \in 0 .. (last.cvpre.len - 1) :
         CVB_stored(cvb, pos) = CVB_stored(last.cvpre, pos)
    /\ CVB_freeze(cvb) = CVB_freeze(last.cvpre)

\* C20: new(width) and with_capacity(capa, width) return an error exactly
\* when width is outside 1..=64; from_int(val, len, width) returns an error
\* exactly when width is outside 1..=64 or val has a bit at or above width,
\* whatever len is, and otherwise a vector of that width holding len
\* integers equal to val.
C20_ConstructorErrors ==
  /\ (last.op \in {"cv_new", "cv_with_capacity"}) =>
       /\ (last.st = "err") <=> (last.width \notin 1 .. WORD_LEN)
       /\ (last.st # "err") =>
            /\ last.st = "ok"
            /\ cvb = [chunks |-> EmptyBuilder, len |-> 0, width |-> last.width]
  /\ (last.op = "from_int") =>
       /\ (last.st = "err") <=>
            (last.width \notin 1 .. WORD_LEN \/ TooWide(last.bits, last.width))
       /\ (last.st # "err") =>
            /\ last.st = "ok"
            /\ cv.origin = "from_int"
            /\ cv.v.len = last.n
            /\ cv.v.width = last.width
            /\ \A pos \in 0 .. (last.n - 1), oc \in BOOLEAN :
                 CV_get_int(cv.v, pos, oc) = Some(last.bits)

\* from_int rejected a value that does not fit a width in range although
\* no integer was to be stored.
C20_Witness ==
  /\ last.op = "from_int"
  /\ last.st = "err"
  /\ last.n = 0
  /\ last.width \in 1 .. WORD_LEN
  /\ TooWide(last.bits, last.width)

\* ------------------------------------------------------------ claims C21..

\* Positions given to access on a DacsByte of n integers: every position up
\* to one past n, and usize::MAX.
DacsQueryInputs(n) == (0 .. (n + 1)) \cup {-1}

\* C21: from_slice(v) succeeds and has len = |v|; access(p) is Some(v[p])
\* for p < |v| and None for p >= |v|, so the level walk never indexes a
\* level or a flag vector out of bounds; the iterator yields v in order.
C21_DacsRoundTrip ==
  (last.op = "dacs_from_slice") =>
    /\ last.st = "ok"
    /\ dacs.built
    /\ Dacs_len(dacs.s) = Len(last.vals)
    /\ \A p \in DacsQueryInputs(Len(last.vals)) :
         Dacs_access(dacs.s, p) =
           IF ULt(p, Len(last.vals)) THEN Some(last.vals[p + 1]) ELSE None
    /\ (it.src = "dacs" /\ it.calls >= 1) =>
         it.out = IF it.calls <= Len(last.vals)
                  THEN Some(last.vals[it.calls]) ELSE None

\* The iterator has yielded the last of 70 integers of a sequence of three
\* levels, whose first flag vector is longer than a word.
C21_Witness ==
  /\ last.op = "dacs_from_slice"
  /\ dacs.built
  /\ Dacs_num_levels(dacs.s) = 3
  /\ Len(last.vals) > WORD_LEN
  /\ it.src = "dacs"
  /\ it.calls = Len(last.vals)
  /\ it.out = Some(last.vals[Len(last.vals)])
  /\ Shr(last.vals[Len(last.vals)], LEVEL_WIDTH) # {}

\* The number of ones among the len bits of a frozen flag vector.
FlagOnes(f) == Cardinality(OnesBelow(f.data, f.data.len))

\* C22: a DacsByte built by from_slice over n integers with L levels has
\* data[0].length = n, exactly L - 1 flag vectors, and for every j < L - 1
\* flags[j].len = data[j].length and data[j+1].length = the number of ones
\* in flags[j], which is also what the flag vector's index counts.
C22_LevelLengths ==
  (last.op = "dacs_from_slice" /\ dacs.built) =>
    LET s == dacs.s
        L == Dacs_num_levels(s)
    IN
    /\ L >= 1
    /\ Len(s.data[1]) = Len(last.vals)
    /\ Len(s.flags) = L - 1
    /\ \A j \in 1 .. (L - 1) :
         /\ s.flags[j].data.len = Len(s.data[j])
         /\ WellSized(s.flags[j].data)
         /\ Len(s.data[j + 1]) = FlagOnes(s.flags[j])
         /\ Len(s.data[j + 1]) = Rank9_num_ones(s.flags[j].index)

\* A sequence of three levels whose levels shrink twice: some integers end
\* at the first level, some at the second, and the first flag vector fills
\* exactly one word.
C22_Witness ==
  /\ last.op = "dacs_from_slice"
  /\ dacs.built
  /\ Dacs_num_levels(dacs.s) = 3
  /\ Len(dacs.s.data[3]) >= 1
  /\ Len(dacs.s.data[3]) < Len(dacs.s.data[2])
  /\ Len(dacs.s.data[2]) < Len(dacs.s.data[1])

\* A sequence of two levels whose flag vector fills exactly one word.
C22_WitnessWord ==
  /\ last.op = "dacs_from_slice"
  /\ dacs.built
  /\ Dacs_num_levels(dacs.s) = 2
  /\ dacs.s.flags[1].data.len = WORD_LEN
  /\ Len(dacs.s.data[2]) = WORD_LEN \div 4

\* The least number of bytes, at least one, that hold every integer of vals.
BytesFor(vals) ==
  CHOOSE L \in 1 .. (WORD_LEN \div LEVEL_WIDTH) :
    /\ \A i \in 1 .. Len(vals) : Shr(vals[i], L * LEVEL_WIDTH) = {}
    /\ \A K \in 1 .. (L - 1) :
         \E i \in 1 .. Len(vals) : Shr(vals[i], K * LEVEL_WIDTH) # {}

\* C23: from_slice never panics (neither assertion fails); for a non-empty
\* slice num_levels is ceil(needed_bits(max) / 8), the least number of bytes
\* in 1..8 holding the largest integer (1 for an all-zero slice); one level
\* has no flag vectors; the empty slice gives one level of length 0.
C23_NumLevels ==
  (last.op = "dacs_from_slice") =>
    /\ last.st = "ok"
    /\ dacs.built
    /\ Dacs_num_levels(dacs.s) \in 1 .. 8
    /\ Dacs_num_levels(dacs.s) = BytesFor(last.vals)
    /\ last.vals # <<>> =>
         Dacs_num_levels(dacs.s) =
           ceiled_divide(needed_bits(DB_maxv(last.vals, 1, Len(last.vals))),
                         LEVEL_WIDTH)
    /\ (\A i \in 1 .. Len(last.vals) : last.vals[i] = {}) =>
         Dacs_num_levels(dacs.s) = 1
    /\ Dacs_num_levels(dacs.s) = 1 => dacs.s.flags = <<>>
    /\ last.vals = <<>> => dacs.s = [data |-> <<<<>>>>, flags |-> <<>>]

\* Eight levels whose number is set by the second integer, the first being
\* a single byte.
C23_Witness ==
  /\ last.op = "dacs_from_slice"
  /\ dacs.built
  /\ Len(last.vals) = 2
  /\ Shr(last.vals[1], LEVEL_WIDTH) = {}
  /\ last.vals[1] # {}
  /\ Dacs_num_levels(dacs.s) = 8
  /\ Len(dacs.s.data[8]) = 1

\* Positions given to rank and access on the DArray over bv: both ends, one
\* past the end and usize::MAX.
DARankInputs(bv) ==
  {p \in {0, 1, bv.len - 1, bv.len, bv.len + 1, -1} : p >= -1}

\* rank1 and rank0 at pos, select0 and select1 at k panic exactly where the
\* sidecar they need is absent: select1 and access never.
DAPanicsIffAbsent(a, bv, pos, k) ==
  /\ (DArray_rank1(a, bv, pos) = Panic) <=> ~IsSome(a.r9)
  /\ (DArray_rank0(a, bv, pos) = Panic) <=> ~IsSome(a.r9)
  /\ (DArray_select0(a, bv, k) = Panic) <=> ~IsSome(a.s0)
  /\ DArray_select1(a, bv, k) # Panic
  /\ access(bv, pos) # Panic

\* enable_rank and enable_select0 leave the select1 index, and so select1 at
\* every k in ks, unchanged and give the same structure in either order.
DAEnableFrame(a, bv, ks) ==
  \A er \in {enable_rank(a, bv)}, es \in {enable_select0(a, bv)} :
    /\ er.s1 = a.s1
    /\ es.s1 = a.s1
    /\ \A k \in ks :
         /\ DArray_select1(er, bv, k) = DArray_select1(a, bv, k)
         /\ DArray_select1(es, bv, k) = DArray_select1(a, bv, k)
    /\ [er EXCEPT !.s0 = es.s0] = [es EXCEPT !.r9 = er.r9]
    /\ enable_select0(er, bv) = [er EXCEPT !.s0 = es.s0]
    /\ enable_rank(es, bv) = [es EXCEPT !.r9 = er.r9]

\* C24: on a DArray in every configuration, rank1 and rank0 panic exactly
\* when enable_rank() has not been applied and select0 exactly when
\* enable_select0() has not; select1 and access never panic; the enable_*
\* calls leave the stored bits and the results of select1 and access
\* unchanged and commute.
C24_DArraySidecars ==
  da.built =>
    /\ da.s1 = DArray_from_bits(data).s1
    /\ \A pos \in DARankInputs(data), k \in DASelInputs(da, data) :
         DAPanicsIffAbsent(da, data, pos, k)
    /\ DAEnableFrame(da, data, DASelInputs(da, data))

\* C24 apart from rank at pos = len on a sequence of a whole number of
\* words, where the rank index itself fails (C4).
C24_ApartFromRankAtLen ==
  da.built =>
    /\ da.s1 = DArray_from_bits(data).s1
    /\ \A pos \in DARankInputs(data), k \in DASelInputs(da, data) :
         (pos = data.len /\ data.len % WORD_LEN = 0 /\ IsSome(da.r9))
           \/ DAPanicsIffAbsent(da, data, pos, k)
    /\ DAEnableFrame(da, data, DASelInputs(da, data))

\* Both sidecars are present on a sequence with ones and zeros whose length
\* is not a whole number of words.
C24_Witness ==
  /\ da.built
  /\ IsSome(da.r9)
  /\ IsSome(da.s0)
  /\ data.len % WORD_LEN # 0
  /\ da.s1.num_positions > DA_SUBBLOCK_LEN
  /\ da.s1.num_positions < data.len

\* The super-block holding the k-th target of one polarity, searched in the
\* whole range.
R9_block_of(rs, bv, k, ones) ==
  R9_search(rs.idx, k, 0, R9_num_blocks(bv), ones)

\* The hinted range of k, where hints h are present, holds that super-block.
HintRangeHolds(rs, h, bv, k, ones) ==
  IsSome(h) =>
    /\ (k \div R9_HINT_STRIDE) + 2 <= Len(h.val)
    /\ h.val[(k \div R9_HINT_STRIDE) + 1] <= R9_block_of(rs, bv, k, ones)
    /\ R9_block_of(rs, bv, k, ones) <= h.val[(k \div R9_HINT_STRIDE) + 2]

\* C25: select1(k) and select0(k) of a Rank9Sel built with any combination
\* of with_select1 and with_select0 return what the structure built
\* without hints returns; the hinted search range holds the super-block of
\* the k-th one (zero); with_rank does not change the structure.
C25_HintsDoNotChangeSelect ==
  r9s.built =>
    \A plain \in {Rank9Sel_build_from_bits(data, FALSE, FALSE, FALSE)} :
      /\ plain.select1_hints = None /\ plain.select0_hints = None
      /\ r9s.rs.idx = plain.idx
      /\ r9s.rs = Rank9Sel_build_from_bits(data, ~r9s.with_rank,
                                           IsSome(r9s.rs.select1_hints),
                                           IsSome(r9s.rs.select0_hints))
      /\ \A k \in R9SelInputs(r9s.rs, data) :
           /\ Rank9Sel_select1(r9s.rs, data, k) = Rank9Sel_select1(plain, data, k)
           /\ Rank9Sel_select0(r9s.rs, data, k) = Rank9Sel_select0(plain, data, k)
           /\ Rank9Sel_select1(plain, data, k) = Rank9_select1(plain.idx, data, k)
           /\ Rank9Sel_select0(plain, data, k) = Rank9_select0(plain.idx, data, k)
           /\ (0 <= k /\ k < plain.idx.num_ones) =>
                HintRangeHolds(plain, r9s.rs.select1_hints, data, k, TRUE)
           /\ (0 <= k /\ k < data.len - plain.idx.num_ones) =>
                HintRangeHolds(plain, r9s.rs.select0_hints, data, k, FALSE)
      /\ r9s.op = "select1" => r9s.out = Rank9_select1(plain.idx, data, r9s.k)
      /\ r9s.op = "select0" => r9s.out = Rank9_select0(plain.idx, data, r9s.k)

\* select1 with both hints present found the one of rank two strides, in a
\* sequence whose ones and zeros each need more than two hints.
C25_Witness ==
  /\ r9s.built
  /\ IsSome(r9s.rs.select1_hints)
  /\ IsSome(r9s.rs.select0_hints)
  /\ Len(r9s.rs.select1_hints.val) > 2
  /\ Len(r9s.rs.select0_hints.val) > 2
  /\ r9s.op = "select1"
  /\ r9s.k = 2 * R9_HINT_STRIDE
  /\ IsSome(r9s.out)
  /\ r9s.out.val > r9s.k

\* C26: every BitVectorData, the default one, one frozen from a builder or
\* one reconstructed by from_bytes, has num_words() = ceil(len / W).
C26_NumWords == num_words(data) = CeilWords(data.len)

\* In the index idx over the target positions P, every short super-block q
\* holds, for each L_S-th target of the bucket, an offset from the bucket's
\* first position that is below 2^16 and is stored as it is.
DAOffsetsFit(idx, P) ==
  \A q \in 0 .. (Len(idx.block_inventory) - 1) :
    idx.block_inventory[q + 1] < 0 =>
      \A j \in 0 .. (DA_BLOCK_LEN \div DA_SUBBLOCK_LEN - 1) :
        q * DA_BLOCK_LEN + j * DA_SUBBLOCK_LEN < Len(P) =>
          \A off \in {P[q * DA_BLOCK_LEN + j * DA_SUBBLOCK_LEN + 1]
                        - P[q * DA_BLOCK_LEN + 1]} :
            /\ off < DA_U16
            /\ idx.subblock_inventory[
                 q * (DA_BLOCK_LEN \div DA_SUBBLOCK_LEN) + j + 1] = off

\* C27: in every DArrayIndex built, of ones or of zeros, the offsets of a
\* short super-block (span < T = 2^32) fit 16 bits, so none is truncated in
\* subblock_inventory and select scans from the exact sampled position.
C27_ShortOffsetsFit ==
  da.built =>
    /\ DAOffsetsFit(da.s1, DA_positions(data, 1, Len(data.words), TRUE))
    /\ IsSome(da.s0) =>
         DAOffsetsFit(da.s0.val,
                      DA_positions(data, 1, Len(data.words), FALSE))

\* C28: on every BitVectorData, also one reconstructed by from_bytes whose
\* words hold set bits at positions >= len, NoIndex select1(k) is None for
\* every k >= the number of set bits below len and is never a position
\* >= len.
C28_Select1WithinLen ==
  \A k \in (0 .. NoIndex_num_ones(data)) \cup {-1} :
    \A s \in {NoIndex_select1(data, k)} :
      /\ ULe(Cardinality(OnesBelow(data, data.len)), k) => s = None
      /\ IsSome(s) => s.val < data.len

\* C29: after any sequence of push_bit, push_bits, set_bit and extend_bits
\* calls, successful or failing, the builder holds exactly ceil(len / W)
\* words and every bit at a position >= len in the last word is 0.
C29_BuilderWordsAndTail ==
  /\ Len(bld.words) = CeilWords(bld.len)
  /\ (bld.len % WORD_LEN # 0) =>
       bld.words[Len(bld.words)] \subseteq LowMask(bld.len % WORD_LEN)

\* A failing call came after a call that left a partly filled last word
\* with its highest stored bit set.
C29_Witness ==
  /\ last.op \in {"push_bits", "set_bit"}
  /\ last.st = "err"
  /\ nops = 2
  /\ bld.len % WORD_LEN # 0
  /\ ((bld.len - 1) % WORD_LEN) \in bld.words[Len(bld.words)]

\* Items the iterator it has still to yield.
IterRemaining ==
  IF it.calls < Iter_len(it) THEN Iter_len(it) - it.calls ELSE 0

\* C30: after any number of next() calls on an iterator of a CompactVector
\* or a DacsByte, the call number c returned the item at position c - 1
\* while c <= len and None afterwards, and size_hint() is (lo, Some(hi))
\* with lo <= items still to be yielded <= hi.
C30_IteratorContract ==
  (it.src # "none") =>
    /\ it.calls >= 1 =>
         it.out = IF it.calls <= Iter_len(it)
                  THEN (IF it.src = "cv"
                        THEN Some(CV_stored(cv.v, it.calls - 1))
                        ELSE Some(last.vals[it.calls]))
                  ELSE None
    /\ Iter_size_hint(it).lo <= IterRemaining
    /\ IsSome(Iter_size_hint(it).hi)
    /\ IterRemaining <= Iter_size_hint(it).hi.val

\* C30 without the lower bound of size_hint: the items and the upper bound.
C30_ItemsAndUpperBound ==
  (it.src # "none") =>
    /\ it.calls >= 1 =>
         it.out = IF it.calls <= Iter_len(it)
                  THEN (IF it.src = "cv"
                        THEN Some(CV_stored(cv.v, it.calls - 1))
                        ELSE Some(last.vals[it.calls]))
                  ELSE None
    /\ IsSome(Iter_size_hint(it).hi)
    /\ IterRemaining <= Iter_size_hint(it).hi.val
    /\ it.calls = 0 => Iter_size_hint(it).lo <= IterRemaining

====
